---- MODULE Spec2Model ----
(***************************************************************************)
(* Data retrieval and caching orchestration of ai_stock_analytics:         *)
(*   src/src/data/db_manager.py   DBManager      (shared connection)       *)
(*   src/src/data/db_provider.py  DuckDBProvider (store adapter)           *)
(*   src/src/data/ingestion.py    DataFetcher    (fetch orchestrator)      *)
(*                                                                         *)
(* Dates are day numbers.  A date string "%Y-%m-%d" is modelled by the day *)
(* number it denotes (strftime/strptime at day resolution).                *)
(***************************************************************************)
EXTENDS Integers, Sequences, FiniteSets, TLC

\* ------------------------------------------------------------------ bounds
MaxMgr == 2          \* DBManager objects constructed in one process
MaxSymLen == 2       \* characters of a requested symbol
MaxSyms == 2         \* symbols of one batch request
MaxDepth == 2        \* depth argument of get_discovery_candidates
MaxLimit == 3        \* limit argument of get_discovery_candidates

\* --------------------------------------------------------------- constants
Today == 1000                    \* datetime.now().date()
Yesterday == Today - 1
OldDay == Today - 400            \* a bar older than one year
Dates == {OldDay, Yesterday, Today}
NoDate == 0                      \* None / no row
Vals == {1, 2}                   \* two distinct bar payloads (open, high, low, close, volume)
NoBar == 0

Tickers == {"AAPL", "$MARKET"}
Managers == 1..MaxMgr
MaxCallers == 2
\* the frames and threads of the process that can hold a cursor
Callers == 1..MaxCallers
Locks == {"none", "shared", "exclusive"}   \* what OTHER processes hold

\* a table of bars: date -> value, NoBar where there is no row
Tables == [Dates -> Vals \cup {NoBar}]
EmptyTable == [d \in Dates |-> NoBar]
IsEmpty(df) == \A d \in Dates : df[d] = NoBar
DatesOf(df) == {d \in Dates : df[d] # NoBar}
SetMax(S) == CHOOSE x \in S : \A y \in S : y <= x

VARIABLES
    SHARED_CONNECTION,     \* "none" | "ro" | "rw": mode the connection was opened with
    CONNECTION_READ_ONLY,  \* DBManager._CONNECTION_READ_ONLY
    SCHEMA_INITIALIZED,    \* DBManager._SCHEMA_INITIALIZED
    constructed,           \* the DBManager objects that exist
    read_only,             \* manager -> self.read_only
    extLock,               \* lock held on the file by other processes
    fact_market_data,      \* ticker -> table
    dim_assets,            \* ticker -> NoRow | [name, origin]
    fact_news,             \* set of <<ticker, news item>>
    fact_alt_data,         \* ticker -> value of today's row, NoBar if none
    fact_fundamentals,     \* ticker -> value of today's row, NoBar if none
    dim_competitors,       \* set of <<ticker_a, ticker_b>>
    init_calls,            \* invocations of initialize_db
    init_ok,               \* completed runs of initialize_db
    got_rw,                \* the process obtained a writable handle at some time
    init_read_only,        \* manager -> the read_only argument of its __init__
    DATA_STRATEGY,         \* Config.DATA_STRATEGY
    db_enabled,            \* DataFetcher.db is set (Config.USE_SYNTHETIC_DB)
    live_is_av,            \* DataFetcher.live_provider is the AlphaVantageProvider
    ALPHA_VANTAGE_API_KEY, \* Config.ALPHA_VANTAGE_API_KEY
    date_cache,            \* DataFetcher.date_cache: ticker -> latest date, NoDate if no entry
    cache_files,           \* <<ticker, period>> -> [day of mtime (NoDate: no file), df]
    saved,                 \* history: the bars of the save_ohlcv calls that returned
    activity,              \* the ActivityTracker objects and the LIKE rows of the store
    cursors,               \* caller -> the cursor it holds between two of its calls
    res                    \* observation of the last operation

connVars == <<SHARED_CONNECTION, CONNECTION_READ_ONLY, SCHEMA_INITIALIZED, constructed,
              read_only, init_calls, init_ok, got_rw, init_read_only>>
fetchVars == <<DATA_STRATEGY, db_enabled, live_is_av, ALPHA_VANTAGE_API_KEY, date_cache,
              cache_files>>
storeVars == <<fact_market_data, dim_assets, fact_news, fact_alt_data, fact_fundamentals,
              dim_competitors>>
vars == <<SHARED_CONNECTION, CONNECTION_READ_ONLY, SCHEMA_INITIALIZED, constructed, read_only,
          extLock, fact_market_data, dim_assets, fact_news, fact_alt_data,
          fact_fundamentals, dim_competitors, init_calls, init_ok, got_rw, init_read_only,
          DATA_STRATEGY,
          db_enabled,
          live_is_av, ALPHA_VANTAGE_API_KEY, date_cache, cache_files, saved, activity, cursors, res>>

NoRow == [name |-> "", origin |-> {}, present |-> FALSE]
Origins == {"RBRS", "AIRS"}

\* The process state the operators below transform (the class attributes of
\* DBManager, the managers' read_only fields and the tables of the store).
World == [conn |-> SHARED_CONNECTION, connRO |-> CONNECTION_READ_ONLY,
          schemaInit |-> SCHEMA_INITIALIZED, ro |-> read_only,
          made |-> constructed,
          bars |-> fact_market_data, assets |-> dim_assets, news |-> fact_news,
          alt |-> fact_alt_data, fund |-> fact_fundamentals, comp |-> dim_competitors,
          initCalls |-> init_calls, initOk |-> init_ok, gotRW |-> got_rw, asked |-> init_read_only,
          trace |-> <<>>]

\* ------------------------------------------------------ connection manager
\* duckdb.connect(DB_PATH, read_only=ro): IOException when the file lock is
\* in conflict with what other processes hold.
ConnectOk(lock, ro) == IF ro THEN lock # "exclusive" ELSE lock = "none"

\* an open that leaves _CONNECTION_READ_ONLY as it was
Opened_stale_flag(w, ro) ==
    [w EXCEPT !.conn = IF ro THEN "ro" ELSE "rw",
              !.gotRW = w.gotRW \/ ~ro,
              !.trace = Append(w.trace, IF ro THEN "open_ro" ELSE "open_rw")]

\* duckdb.connect succeeded: the handle and the flag assigned after it
Opened(w, ro) ==
    [w EXCEPT !.conn = IF ro THEN "ro" ELSE "rw",
              !.connRO = ro,
              !.gotRW = w.gotRW \/ ~ro,
              !.trace = Append(w.trace, IF ro THEN "open_ro" ELSE "open_rw")]

Failed(w, ro) == [w EXCEPT !.trace = Append(w.trace, IF ro THEN "fail_ro" ELSE "fail_rw")]

\* get_connection without the RO -> RW upgrade: a handle that exists is reused
get_connection_no_upgrade(w, m, lock) ==
    IF w.conn # "none" THEN [w |-> w, raised |-> FALSE]
    ELSE IF ConnectOk(lock, w.ro[m])
         THEN [w |-> Opened(w, w.ro[m]), raised |-> FALSE]
    ELSE IF ~w.ro[m] /\ ConnectOk(lock, TRUE)
         THEN [w |-> [Opened(Failed(w, FALSE), TRUE) EXCEPT !.ro[m] = TRUE], raised |-> FALSE]
    ELSE [w |-> Failed(w, w.ro[m]), raised |-> TRUE]

\* DBManager.get_connection: [w |-> world after, raised |-> an exception left the call]
get_connection(w, m, lock) ==
    LET upgrade == w.conn # "none" /\ (~w.ro[m] /\ w.connRO)
        w1 == IF upgrade
              THEN [w EXCEPT !.conn = "none", !.trace = Append(w.trace, "close")]
              ELSE w
    IN  IF w1.conn # "none" THEN [w |-> w1, raised |-> FALSE]
        ELSE IF ConnectOk(lock, w1.ro[m])
             THEN [w |-> Opened(w1, w1.ro[m]), raised |-> FALSE]
        ELSE IF ~w1.ro[m]
             THEN IF ConnectOk(lock, TRUE)
                  THEN [w |-> [Opened(Failed(w1, FALSE), TRUE) EXCEPT !.ro[m] = TRUE],
                        raised |-> FALSE]
                  ELSE [w |-> Failed(Failed(w1, FALSE), TRUE), raised |-> TRUE]
        ELSE [w |-> Failed(w1, TRUE), raised |-> TRUE]

\* DBManager.initialize_db: DDL through a cursor of get_connection; a read-only
\* handle rejects the first CREATE TABLE, the exception leaves the method.
initialize_db(w, m, lock) ==
    LET w0 == [w EXCEPT !.initCalls = w.initCalls + 1]
        g == get_connection(w0, m, lock)
    IN  IF g.raised THEN g
        ELSE IF g.w.conn = "rw"
             THEN [w |-> [g.w EXCEPT !.initOk = g.w.initOk + 1,
                                     !.trace = Append(g.w.trace, "ddl_ok")],
                   raised |-> FALSE]
             ELSE [w |-> [g.w EXCEPT !.trace = Append(g.w.trace, "ddl_rejected")],
                   raised |-> TRUE]

\* __init__ without the _SCHEMA_INITIALIZED guard
DBManager_init_unguarded(w, m, ro, lock) ==
    LET w0 == [w EXCEPT !.ro[m] = ro, !.asked[m] = ro, !.made = w.made \cup {m}]
    IN  IF ~ro
        THEN LET i == initialize_db(w0, m, lock)
             IN  IF i.raised THEN i.w
                 ELSE [i.w EXCEPT !.schemaInit = TRUE]
        ELSE w0

\* DBManager.__init__(read_only=ro)
DBManager_init(w, m, ro, lock) ==
    LET w0 == [w EXCEPT !.ro[m] = ro, !.asked[m] = ro, !.made = w.made \cup {m}]
    IN  IF ~ro /\ ~w0.schemaInit
        THEN LET i == initialize_db(w0, m, lock)
             IN  IF i.raised THEN i.w
                 ELSE [i.w EXCEPT !.schemaInit = TRUE]
        ELSE w0

\* ----------------------------------------------------------- store adapter
\* a cursor of the shared connection accepts INSERT/UPDATE/DDL only when the
\* connection was opened read-write
Writable(w) == w.conn = "rw"
Ok(w) == [w |-> w, raised |-> FALSE]
Raise(w) == [w |-> w, raised |-> TRUE]

\* DuckDBProvider.add_asset(ticker) with the default name/sector/industry:
\* INSERT OR IGNORE, no except clause
add_asset(w, m, t, lock) ==
    LET g == get_connection(w, m, lock)
    IN  IF g.raised THEN g
        ELSE IF ~Writable(g.w) THEN Raise(g.w)
        ELSE IF g.w.assets[t].present THEN Ok(g.w)
        ELSE Ok([g.w EXCEPT !.assets[t] = [name |-> t, origin |-> {}, present |-> TRUE]])

\* INSERT OR IGNORE: a row that exists under the key keeps its values
Upsert_keep_existing(old, df) == [d \in Dates |-> IF old[d] # NoBar THEN old[d] ELSE df[d]]

\* INSERT OR REPLACE of the rows of df under key (ticker, date)
Upsert(old, df) == [d \in Dates |-> IF df[d] # NoBar THEN df[d] ELSE old[d]]

\* a save_ohlcv that goes by the read_only flag of its own manager instead of
\* the mode of the shared handle
save_ohlcv_by_flag(w, m, t, df, lock) ==
    IF IsEmpty(df) THEN Ok(w)
    ELSE LET g == get_connection(w, m, lock)
         IN  IF g.raised THEN g
             ELSE IF g.w.ro[m] \/ ~Writable(g.w) THEN Ok(g.w)
             ELSE LET a == add_asset(g.w, m, t, lock)
                  IN  IF a.raised THEN Ok(a.w)
                      ELSE Ok([a.w EXCEPT !.bars[t] = Upsert(a.w.bars[t], df)])

\* DuckDBProvider.save_ohlcv
save_ohlcv(w, m, t, df, lock) ==
    IF IsEmpty(df) THEN Ok(w)
    ELSE LET g == get_connection(w, m, lock)
         IN  IF g.raised THEN g
             ELSE LET a == add_asset(g.w, m, t, lock)
                  IN  IF a.raised THEN Ok(a.w)
                      ELSE IF ~Writable(a.w) THEN Ok(a.w)
                      ELSE Ok([a.w EXCEPT !.bars[t] = Upsert(a.w.bars[t], df)])

\* DuckDBProvider.save_news: INSERT OR IGNORE by the hash of (ticker, link, title)
save_news(w, m, t, items, lock) ==
    IF items = {} THEN Ok(w)
    ELSE LET g == get_connection(w, m, lock)
         IN  IF g.raised THEN g
             ELSE LET a == add_asset(g.w, m, t, lock)
                  IN  IF a.raised THEN Ok(a.w)
                      ELSE IF ~Writable(a.w) THEN Ok(a.w)
                      ELSE Ok([a.w EXCEPT !.news = a.w.news \cup {<<t, i>> : i \in items}])

\* DuckDBProvider.save_alt_data: INSERT OR REPLACE of the row of the day
save_alt_data(w, m, t, v, lock) ==
    LET g == get_connection(w, m, lock)
    IN  IF g.raised THEN g
        ELSE LET a == add_asset(g.w, m, t, lock)
             IN  IF a.raised THEN Ok(a.w)
                 ELSE IF ~Writable(a.w) THEN Ok(a.w)
                 ELSE Ok([a.w EXCEPT !.alt[t] = v])

\* DuckDBProvider.save_fundamentals: INSERT OR IGNORE of today's row
save_fundamentals(w, m, t, v, lock) ==
    LET g == get_connection(w, m, lock)
    IN  IF g.raised THEN g
        ELSE LET a == add_asset(g.w, m, t, lock)
             IN  IF a.raised THEN Ok(a.w)
                 ELSE IF ~Writable(a.w) THEN Ok(a.w)
                 ELSE Ok([a.w EXCEPT !.fund[t] = IF @ = NoBar THEN v ELSE @])

\* DBManager.add_asset: INSERT ... ON CONFLICT DO UPDATE with COALESCE, errors swallowed
DBManager_add_asset(w, m, t, name, lock) ==
    LET g == get_connection(w, m, lock)
    IN  IF g.raised THEN g
        ELSE IF ~Writable(g.w) THEN Ok(g.w)
        ELSE IF g.w.assets[t].present
             THEN Ok([g.w EXCEPT !.assets[t].name = IF name # "" THEN name ELSE @])
             ELSE Ok([g.w EXCEPT !.assets[t] = [name |-> name, origin |-> {}, present |-> TRUE]])

\* DBManager.update_asset_origin: SELECT, INSERT OR IGNORE, UPDATE; errors swallowed
update_asset_origin(w, m, t, origin, lock) ==
    LET g == get_connection(w, m, lock)
        new_origin == IF g.w.assets[t].present THEN g.w.assets[t].origin \cup {origin}
                      ELSE {origin}
    IN  IF g.raised THEN g
        ELSE IF ~Writable(g.w) THEN Ok(g.w)
        ELSE IF g.w.assets[t].present
             THEN Ok([g.w EXCEPT !.assets[t].origin = new_origin])
             ELSE Ok([g.w EXCEPT !.assets[t] =
                         [name |-> "", origin |-> new_origin, present |-> TRUE]])

\* ------------------------------------------------------- store adapter: reads
Periods == {"1y", "max"}
\* period_map of DuckDBProvider.fetch_ohlcv in days; an unknown period is "1 year"
PeriodDays(period) ==
    IF period = "1mo" THEN 30
    ELSE IF period = "3mo" THEN 90
    ELSE IF period = "6mo" THEN 180
    ELSE IF period = "2y" THEN 2 * 365
    ELSE IF period = "5y" THEN 5 * 365
    ELSE IF period = "max" THEN 50 * 365
    ELSE 365

\* SELECT MAX(date)
Latest(df) == IF IsEmpty(df) THEN NoDate ELSE SetMax(DatesOf(df))

\* WHERE date >= MAX(date) - INTERVAL period
Window(df, period) ==
    [d \in Dates |-> IF df[d] # NoBar /\ d >= Latest(df) - PeriodDays(period)
                     THEN df[d] ELSE NoBar]

\* DuckDBProvider.fetch_ohlcv (the second definition of the class, the one in
\* effect): try/finally without except
db_fetch_ohlcv(w, m, t, period, lock) ==
    LET g == get_connection(w, m, lock)
    IN  IF g.raised THEN [w |-> g.w, raised |-> TRUE, df |-> EmptyTable]
        ELSE [w |-> g.w, raised |-> FALSE, df |-> Window(g.w.bars[t], period)]

\* DuckDBProvider.get_latest_date
get_latest_date(w, m, t, lock) ==
    LET g == get_connection(w, m, lock)
    IN  IF g.raised THEN [w |-> g.w, raised |-> TRUE, date |-> NoDate]
        ELSE [w |-> g.w, raised |-> FALSE, date |-> Latest(g.w.bars[t])]

\* DuckDBProvider.fetch_key_metrics: the latest row, {'pe_ratio': 0.0} if none;
\* try/finally without except
fetch_key_metrics(w, m, t, lock) ==
    LET g == get_connection(w, m, lock)
    IN  IF g.raised THEN [w |-> g.w, raised |-> TRUE, data |-> NoBar]
        ELSE [w |-> g.w, raised |-> FALSE, data |-> g.w.fund[t]]

\* DuckDBProvider.get_latest_dates_map: GROUP BY ticker, tickers without rows have no key
get_latest_dates_map(w, m, lock) ==
    LET g == get_connection(w, m, lock)
    IN  IF g.raised THEN [w |-> g.w, raised |-> TRUE, map |-> [t \in Tickers |-> NoDate]]
        ELSE [w |-> g.w, raised |-> FALSE, map |-> [t \in Tickers |-> Latest(g.w.bars[t])]]

\* DuckDBProvider.fetch_batch_ohlcv: every row of the requested tickers, the
\* start date computed from the period is not used in the query
db_fetch_batch_ohlcv(w, m, tickers, period, lock) ==
    IF tickers = {} THEN [w |-> w, raised |-> FALSE, keys |-> {}]
    ELSE LET g == get_connection(w, m, lock)
         IN  IF g.raised THEN [w |-> g.w, raised |-> TRUE, keys |-> {}]
             ELSE [w |-> g.w, raised |-> FALSE,
                   keys |-> {t \in tickers : ~IsEmpty(g.w.bars[t])}]

\* -------------------------------------------------------------- providers
\* what a provider's fetch_ohlcv(ticker, period) does: raises, returns an
\* empty frame, or returns bars
LiveTable == [d \in Dates |-> IF d \in {Yesterday, Today} THEN 2 ELSE NoBar]
ProviderTables == {LiveTable}
Answers == {[kind |-> "raise", df |-> EmptyTable], [kind |-> "empty", df |-> EmptyTable]}
           \cup {[kind |-> "bars", df |-> df] : df \in ProviderTables}
NoAnswer == [kind |-> "empty", df |-> EmptyTable]

\* a chain that asks the YFinanceProvider whatever the AlphaVantageProvider gave
live_chain_always_second(av, p1, p2) ==
    LET first == IF av THEN "AV" ELSE "YF"
    IN  IF p1.kind = "raise" THEN [raised |-> TRUE, df |-> EmptyTable, calls |-> <<first>>]
        ELSE IF av
             THEN [raised |-> p2.kind = "raise", df |-> p2.df, calls |-> <<first, "YF">>]
        ELSE [raised |-> FALSE, df |-> p1.df, calls |-> <<first>>]

\* the try block of the LIVE and SYNTHETIC strategies up to the emptiness test:
\* live_provider, then YFinanceProvider if the AlphaVantageProvider was empty
live_chain(av, p1, p2) ==
    LET first == IF av THEN "AV" ELSE "YF"
    IN  IF p1.kind = "raise" THEN [raised |-> TRUE, df |-> EmptyTable, calls |-> <<first>>]
        ELSE IF p1.kind = "empty" /\ av
             THEN [raised |-> p2.kind = "raise", df |-> p2.df, calls |-> <<first, "YF">>]
        ELSE [raised |-> FALSE, df |-> p1.df, calls |-> <<first>>]

\* the two try blocks of the file-cache strategy: self.provider, then the
\* YFinanceProvider if that gave nothing and is not the YFinanceProvider
legacy_chain(av, p1, p2) ==
    LET first == IF av THEN "AV" ELSE "YF"
    IN  IF p1.kind = "bars" THEN [raised |-> FALSE, df |-> p1.df, calls |-> <<first>>]
        ELSE IF av THEN [raised |-> FALSE, df |-> p2.df, calls |-> <<first, "YF">>]
        ELSE [raised |-> FALSE, df |-> EmptyTable, calls |-> <<first>>]

\* ------------------------------------------------------------- DataFetcher
\* an API key: its length and whether its lower-cased text contains "your_"
NoKey == [len |-> 0, your |-> FALSE]                  \* None or ""
Keys == {NoKey, [len |-> 5, your |-> FALSE], [len |-> 9, your |-> FALSE],
         [len |-> 12, your |-> TRUE]}
\* DataFetcher.__init__ line 30: the live provider is the AlphaVantageProvider
KeyAccepted(k) == k.len > 0 /\ ~k.your /\ k.len > 5
\* get_fundamentals line 704: `if Config.ALPHA_VANTAGE_API_KEY`
KeySet(k) == k.len > 0

FM == 1      \* the DBManager of the DuckDBProvider made by DataFetcher.__init__
Strategies == {"LIVE", "PRODUCTION", "SYNTHETIC", "LEGACY"}

\* no cache file under a key
NoFile == [day |-> NoDate, df |-> EmptyTable]

\* the fetcher object: configuration, memo and file cache
Fetcher == [strategy |-> DATA_STRATEGY, db |-> db_enabled, av |-> live_is_av,
            key |-> ALPHA_VANTAGE_API_KEY, memo |-> date_cache, files |-> cache_files]

Ret(w, files, df, tag, calls) ==
    [w |-> w, files |-> files, df |-> df, tag |-> tag, raised |-> FALSE, calls |-> calls]
Exc(w, files, calls) ==
    [w |-> w, files |-> files, df |-> EmptyTable, tag |-> "exception", raised |-> TRUE,
     calls |-> calls]

\* source tag of rows served from the store in LIVE / PRODUCTION
StoreTag(strategy) == IF strategy = "PRODUCTION" THEN "live" ELSE "cache_db"

\* the smart-skip without the one-day slack: fresh only if the latest date is today
smart_skip_no_slack(w, f, t, period, lock) ==
    LET ld == IF f.memo[t] # NoDate
              THEN [w |-> w, raised |-> FALSE, date |-> f.memo[t]]
              ELSE get_latest_date(w, FM, t, lock)
    IN  IF ld.raised THEN [w |-> ld.w, hit |-> FALSE, df |-> EmptyTable]
        ELSE IF ld.date # NoDate /\ ld.date >= Today
             THEN LET r == db_fetch_ohlcv(ld.w, FM, t, period, lock)
                  IN  [w |-> r.w, hit |-> ~r.raised /\ ~IsEmpty(r.df), df |-> r.df]
        ELSE [w |-> ld.w, hit |-> FALSE, df |-> EmptyTable]

\* fetch_ohlcv lines 62-95: the smart-skip, inside try/except
smart_skip(w, f, t, period, lock) ==
    LET ld == IF f.memo[t] # NoDate
              THEN [w |-> w, raised |-> FALSE, date |-> f.memo[t]]
              ELSE get_latest_date(w, FM, t, lock)
    IN  IF ld.raised THEN [w |-> ld.w, hit |-> FALSE, df |-> EmptyTable]
        ELSE IF ld.date # NoDate /\ ld.date >= Today - 1
             THEN LET r == db_fetch_ohlcv(ld.w, FM, t, period, lock)
                  IN  [w |-> r.w, hit |-> ~r.raised /\ ~IsEmpty(r.df), df |-> r.df]
        ELSE [w |-> ld.w, hit |-> FALSE, df |-> EmptyTable]

\* the fallback tier without the store read: a failed chain gives nothing
live_fallback_no_store(w, f, t, period, calls, lock) ==
    Ret(w, f.files, EmptyTable, "empty", calls)

\* fetch_ohlcv lines 123-134: fall back to the store
live_fallback(w, f, t, period, calls, lock) ==
    IF f.db
    THEN LET r == db_fetch_ohlcv(w, FM, t, period, lock)
         IN  IF r.raised THEN Exc(r.w, f.files, calls)
             ELSE IF ~IsEmpty(r.df) THEN Ret(r.w, f.files, r.df, StoreTag(f.strategy), calls)
             ELSE Ret(r.w, f.files, EmptyTable, "empty", calls)
    ELSE Ret(w, f.files, EmptyTable, "empty", calls)

\* a live tier that registers the ticker in dim_assets before it asks the
\* provider chain
live_fetch_asset_first(w, f, t, period, p1, p2, lock) ==
    LET c == live_chain(f.av, p1, p2)
        a == IF f.db /\ t # "$MARKET" THEN add_asset(w, FM, t, lock) ELSE Ok(w)
    IN  IF t = "$MARKET" \/ a.raised THEN live_fallback(a.w, f, t, period, <<>>, lock)
        ELSE IF c.raised \/ IsEmpty(c.df) THEN live_fallback(a.w, f, t, period, c.calls, lock)
        ELSE IF f.db
             THEN LET sv == save_ohlcv(a.w, FM, t, c.df, lock)
                  IN  IF sv.raised
                      THEN live_fallback(sv.w, f, t, period, c.calls, lock)
                      ELSE Ret(sv.w, f.files, c.df, "live", c.calls)
        ELSE Ret(a.w, f.files, c.df, "live", c.calls)

\* fetch_ohlcv lines 97-134
live_fetch(w, f, t, period, p1, p2, lock) ==
    IF t = "$MARKET"
    THEN IF f.db
         THEN LET r == db_fetch_ohlcv(w, FM, t, period, lock)
              IN  IF r.raised THEN Exc(r.w, f.files, <<>>)
                  ELSE IF ~IsEmpty(r.df) THEN Ret(r.w, f.files, r.df, "cache_db", <<>>)
                  ELSE Ret(r.w, f.files, EmptyTable, "empty", <<>>)
         ELSE Ret(w, f.files, EmptyTable, "empty", <<>>)
    ELSE LET c == live_chain(f.av, p1, p2)
         IN  IF c.raised \/ IsEmpty(c.df) THEN live_fallback(w, f, t, period, c.calls, lock)
             ELSE IF f.db
                  THEN LET sv == save_ohlcv(w, FM, t, c.df, lock)
                       IN  IF sv.raised
                           THEN live_fallback(sv.w, f, t, period, c.calls, lock)
                           ELSE Ret(sv.w, f.files, c.df, "live", c.calls)
             ELSE Ret(w, f.files, c.df, "live", c.calls)

\* prefer-store without the persist step: the provider's bars are returned unsaved
synthetic_fetch_no_persist(w, f, t, period, p1, p2, lock) ==
    LET r == IF f.db THEN db_fetch_ohlcv(w, FM, t, period, lock)
             ELSE [w |-> w, raised |-> FALSE, df |-> EmptyTable]
        c == live_chain(f.av, p1, p2)
    IN  IF r.raised THEN Exc(r.w, f.files, <<>>)
        ELSE IF ~IsEmpty(r.df) THEN Ret(r.w, f.files, r.df, "cache_db", <<>>)
        ELSE IF ~c.raised /\ ~IsEmpty(c.df) /\ f.db
             THEN Ret(r.w, f.files, c.df, "live", c.calls)
        ELSE Ret(r.w, f.files, EmptyTable, "empty", c.calls)

\* fetch_ohlcv lines 136-159
synthetic_fetch(w, f, t, period, p1, p2, lock) ==
    LET r == IF f.db THEN db_fetch_ohlcv(w, FM, t, period, lock)
             ELSE [w |-> w, raised |-> FALSE, df |-> EmptyTable]
        c == live_chain(f.av, p1, p2)
    IN  IF r.raised THEN Exc(r.w, f.files, <<>>)
        ELSE IF ~IsEmpty(r.df) THEN Ret(r.w, f.files, r.df, "cache_db", <<>>)
        ELSE IF ~c.raised /\ ~IsEmpty(c.df) /\ f.db
             THEN LET sv == save_ohlcv(r.w, FM, t, c.df, lock)
                  IN  IF sv.raised THEN Ret(sv.w, f.files, EmptyTable, "empty", c.calls)
                      ELSE Ret(sv.w, f.files, c.df, "live", c.calls)
        ELSE Ret(r.w, f.files, EmptyTable, "empty", c.calls)

\* a file cache keyed by the ticker alone: one file serves every period
legacy_fetch_by_ticker(w, f, t, period, use_cache, p1, p2) ==
    LET file == f.files[<<t, "1y">>]
        c == legacy_chain(f.av, p1, p2)
    IN  IF use_cache /\ file.day # NoDate /\ file.day = Today
        THEN Ret(w, f.files, file.df, "cache_file", <<>>)
        ELSE IF IsEmpty(c.df) THEN Ret(w, f.files, EmptyTable, "empty", c.calls)
        ELSE Ret(w, [f.files EXCEPT ![<<t, "1y">>] = [day |-> Today, df |-> c.df]],
                 c.df, "live", c.calls)

\* fetch_ohlcv lines 161-212: same-day file cache keyed by (ticker, period)
legacy_fetch(w, f, t, period, use_cache, p1, p2) ==
    LET file == f.files[<<t, period>>]
        c == legacy_chain(f.av, p1, p2)
    IN  IF use_cache /\ file.day # NoDate /\ file.day = Today
        THEN Ret(w, f.files, file.df, "cache_file", <<>>)
        ELSE IF IsEmpty(c.df) THEN Ret(w, f.files, EmptyTable, "empty", c.calls)
        ELSE Ret(w, [f.files EXCEPT ![<<t, period>>] = [day |-> Today, df |-> c.df]],
                 c.df, "live", c.calls)

\* DataFetcher.fetch_ohlcv
fetch_ohlcv(w, f, t, period, use_cache, p1, p2, lock) ==
    IF f.strategy \in {"LIVE", "PRODUCTION"}
    THEN IF f.db
         THEN LET s == smart_skip(w, f, t, period, lock)
              IN  IF s.hit THEN Ret(s.w, f.files, s.df, StoreTag(f.strategy), <<>>)
                  ELSE live_fetch(s.w, f, t, period, p1, p2, lock)
         ELSE live_fetch(w, f, t, period, p1, p2, lock)
    ELSE IF f.strategy = "SYNTHETIC" THEN synthetic_fetch(w, f, t, period, p1, p2, lock)
    ELSE legacy_fetch(w, f, t, period, use_cache, p1, p2)

\* DataFetcher.warmup_cache
warmup_cache(w, f, lock) ==
    IF f.db
    THEN LET r == get_latest_dates_map(w, FM, lock)
         IN  [w |-> r.w, raised |-> r.raised, memo |-> IF r.raised THEN f.memo ELSE r.map]
    ELSE [w |-> w, raised |-> FALSE, memo |-> f.memo]

\* what a provider's fetch_key_metrics(ticker) does: raises, returns {} or metrics
FundAnswers == {"raise", "empty", "data"}
LiveFund == 2
Metrics(a) == IF a = "data" THEN LiveFund ELSE NoBar
FundRet(w, data, calls) == [w |-> w, raised |-> FALSE, data |-> data, calls |-> calls]

\* get_fundamentals lines 730-734: self.provider.fetch_key_metrics, errors swallowed
fund_provider(w, f, t, a1, a2, lock, calls) ==
    IF f.strategy = "SYNTHETIC"
    THEN IF f.db
         THEN LET r == fetch_key_metrics(w, FM, t, lock)
              IN  FundRet(r.w, r.data, calls)
         ELSE FundRet(w, NoBar, calls)
    ELSE IF f.av THEN FundRet(w, Metrics(a1), Append(calls, "AV"))
    ELSE FundRet(w, Metrics(a2), Append(calls, "YF"))

\* get_fundamentals lines 718-728: d is what the chain gave; a non-empty answer is
\* saved and returned, an error of the save gives {'pe_ratio': 0.0}
fund_save(w, f, t, a1, a2, lock, calls, d) ==
    IF d # NoBar
    THEN LET sv == save_fundamentals(w, FM, t, d, lock)
         IN  IF sv.raised THEN FundRet(sv.w, NoBar, calls) ELSE FundRet(sv.w, d, calls)
    ELSE fund_provider(w, f, t, a1, a2, lock, calls)

\* get_fundamentals lines 701-715: AlphaVantageProvider() if the key is set, then
\* YFinanceProvider() if that gave nothing useful; each inside try/except: pass
fund_chain(w, f, t, a1, a2, lock) ==
    IF KeySet(f.key)
    THEN IF Metrics(a1) # NoBar
         THEN fund_save(w, f, t, a1, a2, lock, <<"AV">>, Metrics(a1))
         ELSE fund_save(w, f, t, a1, a2, lock, <<"AV", "YF">>, Metrics(a2))
    ELSE fund_save(w, f, t, a1, a2, lock, <<"YF">>, Metrics(a2))

\* get_fundamentals lines 688-698: r is what the store's fetch_key_metrics gave
fund_store(f, t, allow_fallback, a1, a2, lock, r) ==
    IF r.raised THEN [w |-> r.w, raised |-> TRUE, data |-> NoBar, calls |-> <<>>]
    ELSE IF ~allow_fallback \/ r.data # NoBar THEN FundRet(r.w, r.data, <<>>)
    ELSE fund_chain(r.w, f, t, a1, a2, lock)

\* DataFetcher.get_fundamentals
get_fundamentals(w, f, t, allow_fallback, a1, a2, lock) ==
    IF t = "$MARKET" THEN FundRet(w, NoBar, <<>>)
    ELSE IF f.db
         THEN fund_store(f, t, allow_fallback, a1, a2, lock, fetch_key_metrics(w, FM, t, lock))
    ELSE fund_provider(w, f, t, a1, a2, lock, <<>>)

\* one entry of a batch result
NoEntry == [present |-> FALSE, df |-> EmptyTable, tag |-> "", calls |-> <<>>]
Entry(df, tag, calls) == [present |-> TRUE, df |-> df, tag |-> tag, calls |-> calls]

\* fetch_batch_ohlcv lines 229-235: the missing tickers go through fetch_ohlcv in
\* turn; batch_next takes the result r of the call for the first of them
RECURSIVE batch_fallback(_, _, _, _, _, _, _, _)
RECURSIVE batch_next(_, _, _, _, _, _, _, _)
batch_next(f, missing, period, p1, p2, lock, out, r) ==
    IF r.raised THEN [w |-> r.w, files |-> r.files, raised |-> TRUE, out |-> out]
    ELSE batch_fallback(r.w, [f EXCEPT !.files = r.files], Tail(missing), period,
                        p1, p2, lock,
                        [out EXCEPT ![Head(missing)] = Entry(r.df, r.tag, r.calls)])

batch_fallback(w, f, missing, period, p1, p2, lock, out) ==
    IF missing = <<>> THEN [w |-> w, files |-> f.files, raised |-> FALSE, out |-> out]
    ELSE batch_next(f, missing, period, p1, p2, lock, out,
                    fetch_ohlcv(w, f, Head(missing), period, TRUE, p1, p2, lock))

\* the elements of a list that satisfy a test, in order
RECURSIVE Missing(_, _)
Missing(tickers, keys) ==
    IF tickers = <<>> THEN <<>>
    ELSE IF Head(tickers) \in keys THEN Missing(Tail(tickers), keys)
    ELSE <<Head(tickers)>> \o Missing(Tail(tickers), keys)

\* fetch_batch_ohlcv lines 225-235: b is what the store's batch read gave
batch_merge(f, tickers, period, p1, p2, lock, b) ==
    IF b.raised
    THEN [w |-> b.w, files |-> f.files, raised |-> TRUE,
          out |-> [t \in Tickers |-> NoEntry]]
    ELSE batch_fallback(b.w, f, Missing(tickers, b.keys), period, p1, p2, lock,
                        [t \in Tickers |-> IF t \in b.keys
                                           THEN Entry(b.w.bars[t], "cache_batch", <<>>)
                                           ELSE NoEntry])

\* DataFetcher.fetch_batch_ohlcv
fetch_batch_ohlcv(w, f, tickers, period, p1, p2, lock) ==
    batch_merge(f, tickers, period, p1, p2, lock,
                IF f.db
                THEN db_fetch_batch_ohlcv(w, FM, {tickers[i] : i \in 1..Len(tickers)},
                                          period, lock)
                ELSE [w |-> w, raised |-> FALSE, keys |-> {}])

\* ------------------------------------------------------------ observation
NoRes == [op |-> "init", m |-> 0, raised |-> FALSE, trace |-> <<>>, wantRW |-> FALSE,
          lock |-> "none", preConn |-> "none", onlyRO |-> FALSE, changed |-> FALSE,
          ticker |-> "", arg |-> 0, period |-> "", use_cache |-> TRUE,
          allow_fallback |-> TRUE,
          df |-> EmptyTable, tag |-> "", calls |-> <<>>,
          p1 |-> NoAnswer, p2 |-> NoAnswer,
          storeBefore |-> EmptyTable, memoBefore |-> NoDate,
          filesBefore |-> [k \in Tickers \X Periods |-> NoFile],
          symbols |-> <<>>, query |-> <<>>,
          core |-> {}, limit |-> 0, depth |-> 0, out |-> {},
          tickers |-> <<>>,
          batch |-> [t \in Tickers |-> NoEntry], single |-> [t \in Tickers |-> NoEntry]]

Store(w) == <<w.bars, w.assets, w.news, w.alt, w.fund>>

\* the world after an operation becomes the next state
Apply(w) ==
    /\ SHARED_CONNECTION' = w.conn
    /\ CONNECTION_READ_ONLY' = w.connRO
    /\ SCHEMA_INITIALIZED' = w.schemaInit
    /\ constructed' = w.made
    /\ read_only' = w.ro
    /\ fact_market_data' = w.bars
    /\ dim_assets' = w.assets
    /\ fact_news' = w.news
    /\ fact_alt_data' = w.alt
    /\ fact_fundamentals' = w.fund
    /\ dim_competitors' = w.comp
    /\ init_calls' = w.initCalls
    /\ init_ok' = w.initOk
    /\ got_rw' = w.gotRW
    /\ init_read_only' = w.asked

\* the world the process starts in
Start(w) ==
    /\ SHARED_CONNECTION = w.conn
    /\ CONNECTION_READ_ONLY = w.connRO
    /\ SCHEMA_INITIALIZED = w.schemaInit
    /\ constructed = w.made
    /\ read_only = w.ro
    /\ fact_market_data = w.bars
    /\ dim_assets = w.assets
    /\ fact_news = w.news
    /\ fact_alt_data = w.alt
    /\ fact_fundamentals = w.fund
    /\ dim_competitors = w.comp
    /\ init_calls = w.initCalls
    /\ init_ok = w.initOk
    /\ got_rw = w.gotRW
    /\ init_read_only = w.asked

\* what an operation of manager m leaves to be observed
Observe(op, m, t, arg, r) ==
    [NoRes EXCEPT !.op = op, !.m = m, !.raised = r.raised, !.trace = r.w.trace,
                  !.wantRW = ~read_only[m], !.lock = extLock,
                  !.preConn = SHARED_CONNECTION,
                  !.onlyRO = (SHARED_CONNECTION = "ro" /\ ~got_rw),
                  !.changed = (Store(r.w) # Store(World)),
                  !.ticker = t, !.arg = arg]

Blank == [conn |-> "none", connRO |-> FALSE, schemaInit |-> FALSE,
          ro |-> [m \in Managers |-> FALSE], made |-> {},
          bars |-> [t \in Tickers |-> EmptyTable],
          assets |-> [t \in Tickers |-> NoRow], news |-> {},
          alt |-> [t \in Tickers |-> NoBar], fund |-> [t \in Tickers |-> NoBar],
          comp |-> {},
          initCalls |-> 0, initOk |-> 0, gotRW |-> FALSE,
          asked |-> [m \in Managers |-> FALSE], trace |-> <<>>]

\* the caller is between two calls
Idle == res = NoRes

\* ------------------------------------------- connection manager: the process
ConnTickers == {"AAPL"}
ConnTables == {df \in Tables : DatesOf(df) \in {{Today}, {Yesterday, Today}}
                                /\ \A d \in DatesOf(df) : df[d] = 1}

\* the history after save_ohlcv(t, df) ended as r: `any` collects the bars of
\* every call that returned, `rw` those of the calls that returned with the
\* handle of the process writable
NoSaved == [any |-> [t \in Tickers |-> EmptyTable], rw |-> [t \in Tickers |-> EmptyTable]]
Saved(s, t, df, r) ==
    IF r.raised THEN s
    ELSE [any |-> [s.any EXCEPT ![t] = Upsert(@, df)],
          rw |-> IF Writable(r.w) THEN [s.rw EXCEPT ![t] = Upsert(@, df)] ELSE s.rw]

\* con = db.get_connection() ... finally: con.close(): state "open" from the
\* return of get_connection to the close, "dead" if the connection the cursor
\* belongs to was closed meanwhile; m the manager that handed it out, by the
\* manager whose call closed the connection
NoCursor == [state |-> "none", m |-> 0, by |-> 0]

\* no ActivityTracker constructed, no LIKE row in fact_user_interactions;
\* trackers: the managers that are the db of a tracker, read_only: the
\* tracker's own flag
NoActivity == [trackers |-> {}, read_only |-> [m \in Managers |-> FALSE], likes |-> {}]

InitConn ==
    /\ Start(Blank)
    /\ DATA_STRATEGY = "LEGACY"
    /\ db_enabled = FALSE
    /\ live_is_av = FALSE
    /\ ALPHA_VANTAGE_API_KEY = NoKey
    /\ saved = NoSaved
    /\ activity = NoActivity
    /\ cursors = [c \in Callers |-> NoCursor]
    /\ date_cache = [t \in Tickers |-> NoDate]
    /\ cache_files = [k \in Tickers \X Periods |-> NoFile]
    /\ extLock \in Locks
    /\ res = NoRes

NewManager(m, ro) ==
    /\ m \notin constructed
    /\ \A k \in Managers : k < m => k \in constructed
    /\ LET w == DBManager_init(World, m, ro, extLock)
       IN  /\ Apply(w)
           /\ res' = [Observe("new", m, "", 0, Ok(w)) EXCEPT !.wantRW = ~ro]
    /\ UNCHANGED <<extLock, fetchVars, saved, activity, cursors>>

\* a get_connection that closes the handle whenever its mode is not the one
\* requested, also a writable handle on a read-only request
GetConnection_exact_mode(m) ==
    /\ m \in constructed
    /\ LET w0 == IF World.conn # "none" /\ ((World.conn = "ro") # World.ro[m])
                 THEN [World EXCEPT !.conn = "none", !.trace = <<"close">>]
                 ELSE World
           r == get_connection(w0, m, extLock)
       IN  Apply(r.w) /\ res' = Observe("get_connection", m, "", 0, r)
    /\ UNCHANGED <<extLock, fetchVars, saved, activity, cursors>>

GetConnection(m) ==
    /\ m \in constructed
    /\ LET r == get_connection(World, m, extLock)
       IN  Apply(r.w) /\ res' = Observe("get_connection", m, "", 0, r)
    /\ UNCHANGED <<extLock, fetchVars, saved, activity, cursors>>

SaveOhlcv(m, t, df) ==
    /\ m \in constructed
    /\ LET r == save_ohlcv(World, m, t, df, extLock)
       IN  /\ Apply(r.w)
           /\ saved' = Saved(saved, t, df, r)
           /\ res' = [Observe("save_ohlcv", m, t, 0, r) EXCEPT
                         !.df = df, !.storeBefore = fact_market_data[t]]
    /\ UNCHANGED <<extLock, fetchVars, activity, cursors>>

AddAsset(m, t) ==
    /\ m \in constructed
    /\ LET r == add_asset(World, m, t, extLock)
       IN  Apply(r.w) /\ res' = Observe("add_asset", m, t, 0, r)
    /\ UNCHANGED <<extLock, fetchVars, saved, activity, cursors>>

SaveNews(m, t, items) ==
    /\ m \in constructed
    /\ LET r == save_news(World, m, t, items, extLock)
       IN  Apply(r.w) /\ res' = Observe("save_news", m, t, 0, r)
    /\ UNCHANGED <<extLock, fetchVars, saved, activity, cursors>>

SaveAltData(m, t, v) ==
    /\ m \in constructed
    /\ LET r == save_alt_data(World, m, t, v, extLock)
       IN  Apply(r.w) /\ res' = Observe("save_alt_data", m, t, v, r)
    /\ UNCHANGED <<extLock, fetchVars, saved, activity, cursors>>

SaveFundamentals(m, t, v) ==
    /\ m \in constructed
    /\ LET r == save_fundamentals(World, m, t, v, extLock)
       IN  Apply(r.w) /\ res' = Observe("save_fundamentals", m, t, v, r)
    /\ UNCHANGED <<extLock, fetchVars, saved, activity, cursors>>

MgrAddAsset(m, t, name) ==
    /\ m \in constructed
    /\ LET r == DBManager_add_asset(World, m, t, name, extLock)
       IN  Apply(r.w) /\ res' = Observe("DBManager.add_asset", m, t, 0, r)
    /\ UNCHANGED <<extLock, fetchVars, saved, activity, cursors>>

UpdateAssetOrigin(m, t, origin) ==
    /\ m \in constructed
    /\ LET r == update_asset_origin(World, m, t, origin, extLock)
       IN  Apply(r.w) /\ res' = Observe("update_asset_origin", m, t, 0, r)
    /\ UNCHANGED <<extLock, fetchVars, saved, activity, cursors>>

\* another process opens or closes the store file: a writer needs the file
\* unopened, a reader needs it not opened read-write
OtherProcess(l) ==
    /\ l # extLock
    /\ l = "exclusive" => SHARED_CONNECTION = "none"
    /\ l = "shared" => SHARED_CONNECTION # "rw"
    /\ extLock' = l
    /\ UNCHANGED <<connVars, storeVars, fetchVars, saved, activity, cursors, res>>

NextConn ==
    \/ \E m \in Managers, ro \in BOOLEAN : NewManager(m, ro)
    \/ \E m \in Managers : GetConnection(m)
    \/ \E m \in Managers, t \in ConnTickers, df \in ConnTables : SaveOhlcv(m, t, df)
    \/ \E m \in Managers, t \in ConnTickers : AddAsset(m, t)
    \/ \E m \in Managers, t \in ConnTickers : SaveNews(m, t, {1})
    \/ \E m \in Managers, t \in ConnTickers : SaveAltData(m, t, 1)
    \/ \E m \in Managers, t \in ConnTickers : SaveFundamentals(m, t, 1)
    \/ \E m \in Managers, t \in ConnTickers : MgrAddAsset(m, t, "Apple")
    \/ \E m \in Managers, t \in ConnTickers, o \in Origins : UpdateAssetOrigin(m, t, o)
    \/ \E l \in Locks : OtherProcess(l)

SpecConn == InitConn /\ [][NextConn]_vars

\* ---------------------------------------------------------ActivityTracker
\* ActivityTracker.__init__ with USE_SYNTHETIC_DB: DBManager(read_only=False)
\* in a try, DBManager(read_only=True) in its except. DBManager.__init__
\* catches what initialize_db raises, so the try never fails on a lock.
tracker_init(w, m, lock) ==
    LET i == Ok(DBManager_init(w, m, FALSE, lock))
    IN  IF i.raised THEN [w |-> DBManager_init(i.w, m, TRUE, lock), read_only |-> TRUE]
        ELSE [w |-> i.w, read_only |-> FALSE]

\* ActivityTracker.toggle_like: nothing if the tracker is read-only; else a
\* cursor (outside the try), then DELETE of the LIKE row, or INSERT OR IGNORE
\* of the asset and INSERT of the LIKE row; an error of the statements is
\* printed
toggle_like(w, a, m, t, lock) ==
    IF a.read_only[m] THEN [w |-> w, raised |-> FALSE, likes |-> a.likes]
    ELSE LET g == get_connection(w, m, lock)
         IN  IF g.raised THEN [w |-> g.w, raised |-> TRUE, likes |-> a.likes]
             ELSE IF ~Writable(g.w) THEN [w |-> g.w, raised |-> FALSE, likes |-> a.likes]
             ELSE IF t \in a.likes
                  THEN [w |-> g.w, raised |-> FALSE, likes |-> a.likes \ {t}]
             ELSE [w |-> IF g.w.assets[t].present THEN g.w
                         ELSE [g.w EXCEPT !.assets[t] =
                                  [name |-> "", origin |-> {}, present |-> TRUE]],
                   raised |-> FALSE, likes |-> a.likes \cup {t}]

\* tracker = ActivityTracker(), its manager is m
NewTracker(m) ==
    /\ m \notin constructed
    /\ \A k \in Managers : k < m => k \in constructed
    /\ LET r == tracker_init(World, m, extLock)
       IN  /\ Apply(r.w)
           /\ activity' = [activity EXCEPT !.trackers = @ \cup {m},
                                           !.read_only[m] = r.read_only]
           /\ res' = [Observe("ActivityTracker", m, "", 0, Ok(r.w)) EXCEPT !.wantRW = TRUE]
    /\ UNCHANGED <<extLock, fetchVars, saved, cursors>>

ToggleLike(m, t) ==
    /\ m \in activity.trackers
    /\ LET r == toggle_like(World, activity, m, t, extLock)
       IN  /\ Apply(r.w)
           /\ activity' = [activity EXCEPT !.likes = r.likes]
           /\ res' = [Observe("toggle_like", m, t, 0, r) EXCEPT
                         !.changed = (Store(r.w) # Store(World) \/ r.likes # activity.likes)]
    /\ UNCHANGED <<extLock, fetchVars, saved, cursors>>

NextTracker ==
    \/ \E m \in Managers : NewTracker(m)
    \/ \E m \in Managers, t \in ConnTickers : ToggleLike(m, t)
    \/ \E m \in Managers : GetConnection(m)
    \/ \E l \in Locks : OtherProcess(l)

SpecTracker == InitConn /\ [][NextTracker]_vars

\* ------------------------------------------------ cursors held by callers
\* what a call of manager m that left the trace tr does to the cursors that
\* are open: DuckDBPyConnection.close() of the upgrade (db_manager.py 38-43)
\* ends every cursor of the connection
AfterCall(cur, m, tr) ==
    [c \in Callers |->
        IF cur[c].state = "open" /\ (\E i \in 1..Len(tr) : tr[i] = "close")
        THEN [cur[c] EXCEPT !.state = "dead", !.by = m]
        ELSE cur[c]]

\* caller c constructs a manager while cursors are open
CallerNew(c, m, ro) ==
    /\ m \notin constructed
    /\ \A k \in Managers : k < m => k \in constructed
    /\ LET w == DBManager_init(World, m, ro, extLock)
       IN  /\ Apply(w)
           /\ cursors' = AfterCall(cursors, m, w.trace)
           /\ res' = [Observe("new", m, "", c, Ok(w)) EXCEPT !.wantRW = ~ro]
    /\ UNCHANGED <<extLock, fetchVars, saved, activity>>

\* caller c: con = db.get_connection() on manager m, the cursor stays open
\* when the call has returned (db_manager.py 64)
OpenCursor(c, m) ==
    /\ m \in constructed
    /\ cursors[c].state = "none"
    /\ LET r == get_connection(World, m, extLock)
       IN  /\ Apply(r.w)
           /\ cursors' = [AfterCall(cursors, m, r.w.trace) EXCEPT
                             ![c] = IF r.raised THEN NoCursor
                                    ELSE [state |-> "open", m |-> m, by |-> 0]]
           /\ res' = Observe("get_connection", m, "", c, r)
    /\ UNCHANGED <<extLock, fetchVars, saved, activity>>

\* caller c: con.close() in the finally of the method that holds the cursor
CloseCursor(c) ==
    /\ cursors[c].state # "none"
    /\ cursors' = [cursors EXCEPT ![c] = NoCursor]
    /\ res' = [NoRes EXCEPT !.op = "cursor.close", !.m = cursors[c].m, !.arg = c]
    /\ UNCHANGED <<connVars, storeVars, fetchVars, extLock, saved, activity>>

NextCursor ==
    \/ \E c \in Callers, m \in Managers, ro \in BOOLEAN : CallerNew(c, m, ro)
    \/ \E c \in Callers, m \in Managers : OpenCursor(c, m)
    \/ \E c \in Callers : CloseCursor(c)
    \/ \E l \in Locks : OtherProcess(l)

SpecCursor == InitConn /\ [][NextCursor]_vars

\* ------------------------------------- store adapter: reads after writes
\* DuckDBProvider.get_latest_date through manager m
ReadLatestDate(m, t) ==
    /\ m \in constructed
    /\ LET r == get_latest_date(World, m, t, extLock)
       IN  Apply(r.w) /\ res' = Observe("get_latest_date", m, t, r.date, r)
    /\ UNCHANGED <<extLock, fetchVars, saved, activity, cursors>>

\* DuckDBProvider.fetch_ohlcv through manager m
ReadOhlcv(m, t, period) ==
    /\ m \in constructed
    /\ LET r == db_fetch_ohlcv(World, m, t, period, extLock)
       IN  /\ Apply(r.w)
           /\ res' = [Observe("db_fetch_ohlcv", m, t, 0, r) EXCEPT
                         !.df = r.df, !.period = period]
    /\ UNCHANGED <<extLock, fetchVars, saved, activity, cursors>>

\* DuckDBProvider.fetch_batch_ohlcv([t]) through manager m
ReadBatch(m, t, period) ==
    /\ m \in constructed
    /\ LET r == db_fetch_batch_ohlcv(World, m, {t}, period, extLock)
       IN  /\ Apply(r.w)
           /\ res' = [Observe("db_fetch_batch_ohlcv", m, t, 0, r) EXCEPT
                         !.df = IF t \in r.keys THEN r.w.bars[t] ELSE EmptyTable,
                         !.period = period]
    /\ UNCHANGED <<extLock, fetchVars, saved, activity, cursors>>

NextRead ==
    \/ \E m \in Managers, ro \in BOOLEAN : NewManager(m, ro)
    \/ \E m \in Managers : GetConnection(m)
    \/ \E m \in Managers, t \in ConnTickers, df \in ConnTables \cup ProviderTables :
          SaveOhlcv(m, t, df)
    \/ \E m \in Managers, t \in ConnTickers : ReadLatestDate(m, t)
    \/ \E m \in Managers, t \in ConnTickers : ReadOhlcv(m, t, "1y")
    \/ \E m \in Managers, t \in ConnTickers : ReadBatch(m, t, "1y")
    \/ \E l \in Locks : OtherProcess(l)

SpecRead == InitConn /\ [][NextRead]_vars

\* ------------------------------------------- store adapter: the batch query
\* a symbol is the sequence of its characters; a text is a sequence of
\* characters and fixed pieces
Chars == {"A", ".", "'"}
Symbols == UNION {[1..n -> Chars] : n \in 1..MaxSymLen}
SymbolLists == UNION {[1..n -> Symbols] : n \in 1..MaxSyms}

\* ", ".join(parts)
RECURSIVE Join(_)
Join(parts) ==
    IF parts = <<>> THEN <<>>
    ELSE IF Len(parts) = 1 THEN Head(parts)
    ELSE Head(parts) \o <<", ">> \o Join(Tail(parts))

\* ticker_list_str = ", ".join([f"'{t}'" for t in tickers])
ticker_list_str(tickers) ==
    Join([i \in 1..Len(tickers) |-> <<"'">> \o tickers[i] \o <<"'">>])

\* the f-string of the query of DuckDBProvider.fetch_batch_ohlcv
batch_query(tickers) ==
    <<"SELECT * FROM fact_market_data WHERE ticker IN (">>
        \o ticker_list_str(tickers) \o <<") ORDER BY ticker, date ASC">>

\* DuckDBProvider.fetch_batch_ohlcv(tickers) builds its query; an empty list
\* returns before that
BatchQuery(tickers) ==
    /\ Idle
    /\ tickers # <<>>
    /\ res' = [NoRes EXCEPT !.op = "batch_query", !.symbols = tickers,
                            !.query = batch_query(tickers)]
    /\ UNCHANGED <<connVars, storeVars, fetchVars, extLock, saved, activity, cursors>>

NextQuery == \E tickers \in SymbolLists : BatchQuery(tickers)

SpecQuery == InitConn /\ [][NextQuery]_vars

\* ---------------------------------------------------- the fetching process
\* what the store file may hold when the process starts
OldTable == [d \in Dates |-> IF d = OldDay THEN 1 ELSE NoBar]
OldYestTable == [d \in Dates |-> IF d \in {OldDay, Yesterday} THEN 1 ELSE NoBar]
InitBars == {b \in [Tickers -> {EmptyTable, OldTable, OldYestTable}] :
                b["$MARKET"] \in {EmptyTable, OldYestTable}}
AssetsOf(b) == [t \in Tickers |-> IF IsEmpty(b[t]) THEN NoRow
                                  ELSE [name |-> t, origin |-> {}, present |-> TRUE]]
\* the cache directory when the process starts (used by the file-cache strategy)
InitFiles == {[k \in Tickers \X Periods |->
                  IF k = <<"AAPL", "1y">> THEN [day |-> day, df |-> OldYestTable] ELSE NoFile]
              : day \in {Yesterday, Today}}
             \cup {[k \in Tickers \X Periods |-> NoFile]}
BatchLists == {<<"AAPL">>, <<"AAPL", "$MARKET">>}

\* DataFetcher.__init__ under every configuration the entry points set: the
\* store is enabled together with SYNTHETIC, LIVE and PRODUCTION (ui/app.py,
\* dcs/main.py, data/backfill.py) and disabled under the default, LEGACY
Init ==
    /\ DATA_STRATEGY \in Strategies
    /\ db_enabled = (DATA_STRATEGY # "LEGACY")
    /\ ALPHA_VANTAGE_API_KEY \in Keys
    /\ saved = NoSaved
    /\ activity = NoActivity
    /\ cursors = [c \in Callers |-> NoCursor]
    /\ live_is_av = KeyAccepted(ALPHA_VANTAGE_API_KEY)
    /\ extLock \in (IF db_enabled THEN Locks ELSE {"none"})
    /\ date_cache = [t \in Tickers |-> NoDate]
    /\ cache_files \in (IF DATA_STRATEGY = "LEGACY" THEN InitFiles
                         ELSE {[k \in Tickers \X Periods |-> NoFile]})
    /\ \E b \in InitBars :
          /\ db_enabled \/ b = [t \in Tickers |-> EmptyTable]
          /\ LET disk == [Blank EXCEPT !.bars = b, !.assets = AssetsOf(b)]
             IN  Start(IF db_enabled THEN DBManager_init(disk, FM, FALSE, extLock) ELSE disk)
    /\ res = NoRes

\* the call has returned r: the process state and the result the caller sees
FetchDone(t, period, use_cache, p1, p2, r) ==
    /\ Apply(r.w)
    /\ cache_files' = r.files
    /\ res' = [Observe("fetch_ohlcv", FM, t, 0, r) EXCEPT
                  !.period = period, !.use_cache = use_cache, !.df = r.df,
                  !.tag = r.tag, !.calls = r.calls, !.p1 = p1, !.p2 = p2,
                  !.storeBefore = fact_market_data[t],
                  !.memoBefore = date_cache[t],
                  !.filesBefore = cache_files]

\* a fetch_ohlcv that memoizes the latest date of the ticker after the call
Fetch_memoizing(t, period, use_cache, p1, p2) ==
    /\ Idle
    /\ DATA_STRATEGY # "LEGACY" => use_cache
    /\ (~live_is_av \/ p1.kind = "bars") => p2 = NoAnswer
    /\ FetchDone(t, period, use_cache, p1, p2,
                 fetch_ohlcv(World, Fetcher, t, period, use_cache, p1, p2, extLock))
    /\ date_cache' = [date_cache EXCEPT ![t] = Latest(fact_market_data'[t])]
    /\ UNCHANGED <<extLock, DATA_STRATEGY, db_enabled, live_is_av, ALPHA_VANTAGE_API_KEY,
                 saved, activity, cursors>>

Fetch(t, period, use_cache, p1, p2) ==
    /\ Idle
    /\ DATA_STRATEGY # "LEGACY" => use_cache
    /\ (~live_is_av \/ p1.kind = "bars") => p2 = NoAnswer
    /\ FetchDone(t, period, use_cache, p1, p2,
                 fetch_ohlcv(World, Fetcher, t, period, use_cache, p1, p2, extLock))
    /\ UNCHANGED <<extLock, DATA_STRATEGY, db_enabled, live_is_av, ALPHA_VANTAGE_API_KEY,
                 date_cache, saved, activity, cursors>>

\* the batch call has returned r; alone[t] is what fetch_ohlcv(t, period) gives
\* from the same state
FetchBatchDone(tickers, period, p1, p2, r, alone) ==
    /\ Apply(r.w)
    /\ cache_files' = r.files
    /\ res' = [Observe("fetch_batch_ohlcv", FM, "", 0, r) EXCEPT
                  !.period = period, !.p1 = p1, !.p2 = p2, !.tickers = tickers,
                  !.batch = r.out,
                  !.single = [t \in Tickers |->
                                IF \E i \in 1..Len(tickers) : tickers[i] = t
                                THEN Entry(alone[t].df, alone[t].tag, alone[t].calls)
                                ELSE NoEntry]]

FetchBatch(tickers, period, p1, p2) ==
    /\ Idle
    /\ (~live_is_av \/ p1.kind = "bars") => p2 = NoAnswer
    /\ FetchBatchDone(tickers, period, p1, p2,
                      fetch_batch_ohlcv(World, Fetcher, tickers, period, p1, p2, extLock),
                      [t \in Tickers |->
                          fetch_ohlcv(World, Fetcher, t, period, TRUE, p1, p2, extLock)])
    /\ UNCHANGED <<extLock, DATA_STRATEGY, db_enabled, live_is_av, ALPHA_VANTAGE_API_KEY,
                 date_cache, saved, activity, cursors>>

WarmupCache ==
    /\ Idle
    /\ LET r == warmup_cache(World, Fetcher, extLock)
       IN  /\ Apply(r.w)
           /\ date_cache' = r.memo
           /\ res' = Observe("warmup_cache", FM, "", 0, r)
    /\ UNCHANGED <<extLock, DATA_STRATEGY, db_enabled, live_is_av, ALPHA_VANTAGE_API_KEY,
                 cache_files, saved, activity, cursors>>

\* get_fundamentals has returned r
FundDone(t, allow_fallback, r) ==
    /\ Apply(r.w)
    /\ res' = [Observe("get_fundamentals", FM, t, r.data, r) EXCEPT
                  !.allow_fallback = allow_fallback, !.calls = r.calls]

GetFundamentals(t, allow_fallback, a1, a2) ==
    /\ Idle
    /\ FundDone(t, allow_fallback,
                get_fundamentals(World, Fetcher, t, allow_fallback, a1, a2, extLock))
    /\ UNCHANGED <<extLock, fetchVars, saved, activity, cursors>>

\* a store write through the fetcher's DuckDBProvider (seeding, backfill)
StoreWrite(t, df) ==
    /\ Idle
    /\ db_enabled
    /\ SaveOhlcv(FM, t, df)

\* another process opens or closes the store file between two calls
LockChange(l) ==
    /\ Idle
    /\ db_enabled
    /\ OtherProcess(l)

\* the caller takes the result of the call and goes on
Return ==
    /\ ~Idle
    /\ res' = NoRes
    /\ UNCHANGED <<connVars, storeVars, fetchVars, saved, activity, cursors, extLock>>

Next ==
    \/ \E t \in Tickers, period \in Periods, use_cache \in BOOLEAN, p1, p2 \in Answers :
          Fetch(t, period, use_cache, p1, p2)
    \/ \E tickers \in BatchLists, period \in Periods, p1, p2 \in Answers :
          FetchBatch(tickers, period, p1, p2)
    \/ WarmupCache
    \/ \E t \in Tickers, allow_fallback \in BOOLEAN, a1, a2 \in FundAnswers :
          GetFundamentals(t, allow_fallback, a1, a2)
    \/ \E df \in ProviderTables : StoreWrite("AAPL", df)
    \/ \E l \in Locks : LockChange(l)
    \/ Return

Spec == Init /\ [][Next]_vars

\* ------------------------------------------------- background collector
NoPeriod == ""       \* fetch_period = None
\* dcs/main.py lines 179-199: the period for a latest stored date (NoDate: no
\* bar), days_diff at day resolution
gap_period(last_date) ==
    IF last_date = NoDate THEN "1y"
    ELSE IF Today - last_date < 1 THEN NoPeriod
    ELSE IF Today - last_date <= 2 THEN "5d"
    ELSE IF Today - last_date <= 25 THEN "1mo"
    ELSE "1y"

\* lines 202-203: fetch_ohlcv(ticker, period=fetch_period, use_cache=False) if
\* a period was selected; ld is what get_latest_date gave (line 181), an
\* exception of it ends the step in the handler of line 228
dcs_fetch(f, t, p1, p2, lock, ld) ==
    IF ld.raised THEN [Ret(ld.w, f.files, EmptyTable, "", <<>>) EXCEPT !.raised = TRUE]
    ELSE IF gap_period(ld.date) = NoPeriod THEN Ret(ld.w, f.files, EmptyTable, "", <<>>)
    ELSE fetch_ohlcv(ld.w, f, t, gap_period(ld.date), FALSE, p1, p2, lock)

\* the step has ended as r
DcsDone(t, p1, p2, r) ==
    /\ Apply(r.w)
    /\ cache_files' = r.files
    /\ res' = [Observe("dcs_update", FM, t, 0, r) EXCEPT
                  !.period = gap_period(Latest(fact_market_data[t])),
                  !.use_cache = FALSE, !.df = r.df, !.tag = r.tag, !.calls = r.calls,
                  !.p1 = p1, !.p2 = p2, !.storeBefore = fact_market_data[t],
                  !.memoBefore = date_cache[t]]

\* step A of a collector cycle for one target (dcs/main.py lines 176-230)
DcsUpdate(t, p1, p2) ==
    /\ Idle
    /\ (~live_is_av \/ p1.kind = "bars") => p2 = NoAnswer
    /\ DcsDone(t, p1, p2,
               dcs_fetch(Fetcher, t, p1, p2, extLock, get_latest_date(World, FM, t, extLock)))
    /\ UNCHANGED <<extLock, DATA_STRATEGY, db_enabled, live_is_av, ALPHA_VANTAGE_API_KEY,
                   date_cache, saved, activity, cursors>>

\* the collector forces USE_SYNTHETIC_DB and strategy LIVE before it
\* constructs its DataFetcher (dcs/main.py lines 79-85)
InitDcs == Init /\ DATA_STRATEGY = "LIVE"

NextDcs ==
    \/ \E p1, p2 \in Answers : DcsUpdate("AAPL", p1, p2)
    \/ \E l \in Locks : LockChange(l)
    \/ Return

SpecDcs == InitDcs /\ [][NextDcs]_vars

\* ------------------------------------------------- RelationshipManager
RM == 1      \* the DBManager made by RelationshipManager.__init__
\* tickers of the competitor graph and the number of their characters
Nodes == {"A", "B", "C", "LONGTK"}
TickLen == [t \in Nodes |-> IF t = "LONGTK" THEN 6 ELSE 1]
EdgePool == {<<"A", "B">>, <<"B", "A">>, <<"B", "C">>, <<"A", "LONGTK">>,
             <<"LONGTK", "C">>, <<"C", "A">>}
CoreSets == {{"A"}, {"A", "B"}}

\* the ticker_b of the edges that leave the frontier
Neighbours(edges, frontier) == {e[2] : e \in {x \in edges : x[1] \in frontier}}

\* line 507: `t and 1 <= len(t) <= 5 and " " not in t`
PassesFilter(t) == 1 <= TickLen[t] /\ TickLen[t] <= 5

\* lines 492-517: the layers of the store path, d layers left
RECURSIVE db_layers(_, _, _, _, _, _)
db_layers(edges, frontier, known, cands, d, traversal_limit) ==
    IF d = 0 \/ frontier = {} THEN cands
    ELSE LET new == {t \in Neighbours(edges, frontier) : PassesFilter(t) /\ t \notin known}
         IN  IF Cardinality(cands \cup new) >= traversal_limit THEN cands \cup new
             ELSE db_layers(edges, new, known \cup new, cands \cup new, d - 1,
                            traversal_limit)

\* lines 535-545: the layers of the JSON path, d layers left
RECURSIVE json_layers(_, _, _, _, _)
json_layers(edges, frontier, known, cands, d) ==
    IF d = 0 THEN cands
    ELSE LET new == Neighbours(edges, frontier) \ known
         IN  IF new = {} THEN cands
             ELSE json_layers(edges, new, known \cup new, cands \cup new, d - 1)

\* random.sample(list(candidates), n): any n of them
Samples(cands, n) == {s \in SUBSET cands : Cardinality(s) = n}

\* lines 520-523: the store path returns a sample if there are more than limit
db_result(g, core, limit, depth) ==
    IF g.raised THEN [w |-> g.w, raised |-> TRUE, outs |-> {{}}]
    ELSE LET cands == db_layers(g.w.comp, core, core, {}, depth, limit * 5)
         IN  [w |-> g.w, raised |-> FALSE,
              outs |-> IF Cardinality(cands) > limit THEN Samples(cands, limit)
                       ELSE {cands}]

\* lines 548-553: the JSON path samples min(len, limit) of them
json_result(w, core, limit, depth) ==
    LET cands == json_layers(w.comp, core, core, {}, depth)
        n == IF Cardinality(cands) < limit THEN Cardinality(cands) ELSE limit
    IN  [w |-> w, raised |-> FALSE, outs |-> Samples(cands, n)]

\* RelationshipManager.get_discovery_candidates: outs are the sets it may return
get_discovery_candidates(w, use_db, core, limit, depth, lock) ==
    IF core = {} THEN [w |-> w, raised |-> FALSE, outs |-> {{}}]
    ELSE IF use_db THEN db_result(get_connection(w, RM, lock), core, limit, depth)
    ELSE json_result(w, core, limit, depth)

\* the call has returned out, one of the sets of r
DiscoverDone(core, limit, depth, r, out) ==
    /\ Apply(r.w)
    /\ res' = [Observe("get_discovery_candidates", RM, "", 0, r) EXCEPT
                  !.core = core, !.limit = limit, !.depth = depth, !.out = out]

Discover(core, limit, depth, out) ==
    /\ Idle
    /\ out \in get_discovery_candidates(World, db_enabled, core, limit, depth, extLock).outs
    /\ DiscoverDone(core, limit, depth,
                    get_discovery_candidates(World, db_enabled, core, limit, depth, extLock),
                    out)
    /\ UNCHANGED <<extLock, fetchVars, saved, activity, cursors>>

\* RelationshipManager.__init__ with the store enabled or disabled, over every
\* competitor graph of the pool
InitDisc ==
    /\ db_enabled \in BOOLEAN
    /\ DATA_STRATEGY = IF db_enabled THEN "LIVE" ELSE "LEGACY"
    /\ ALPHA_VANTAGE_API_KEY = NoKey
    /\ live_is_av = FALSE
    /\ saved = NoSaved
    /\ activity = NoActivity
    /\ cursors = [c \in Callers |-> NoCursor]
    /\ extLock \in (IF db_enabled THEN Locks ELSE {"none"})
    /\ date_cache = [t \in Tickers |-> NoDate]
    /\ cache_files = [k \in Tickers \X Periods |-> NoFile]
    /\ \E g \in SUBSET EdgePool :
          LET disk == [Blank EXCEPT !.comp = g]
          IN  Start(IF db_enabled THEN DBManager_init(disk, RM, FALSE, extLock) ELSE disk)
    /\ res = NoRes

NextDisc ==
    \/ \E core \in CoreSets, limit \in 0..MaxLimit, depth \in 1..MaxDepth,
          out \in SUBSET Nodes : Discover(core, limit, depth, out)
    \/ \E l \in Locks : LockChange(l)
    \/ Return

SpecDisc == InitDisc /\ [][NextDisc]_vars

\* ------------------------------------------------- claims: connection manager
InTrace(e) == \E i \in 1..Len(res.trace) : res.trace[i] = e
WriteOps == {"save_ohlcv", "save_news", "save_alt_data", "save_fundamentals", "add_asset",
             "DBManager.add_asset", "update_asset_origin"}

\* C4: a manager requesting a writable handle that calls get_connection while
\* another process holds the write lock of the store gets a read-only handle
\* instead of an exception, and afterwards its read_only flag and
\* _CONNECTION_READ_ONLY both read read-only.
C4_DowngradeUnderWriteLock ==
    (res.op = "get_connection" /\ res.wantRW /\ res.lock = "exclusive")
        => /\ ~res.raised
           /\ SHARED_CONNECTION = "ro"
           /\ read_only[res.m]
           /\ CONNECTION_READ_ONLY

\* C6: in a process that only ever obtained a read-only handle every store
\* write operation returns without raising and leaves the store unchanged.
C6_ReadOnlyWritesAreNoOps ==
    (res.op \in WriteOps /\ SHARED_CONNECTION = "ro" /\ ~got_rw)
        => (~res.raised /\ ~res.changed)

\* C9 (as claimed): initialize_db runs at most once in a process, and never
\* sends DDL to a read-only handle.
C9_InitRunsAtMostOnce ==
    /\ init_calls <= 1
    /\ ~InTrace("ddl_rejected")

\* C9 (amended): initialize_db completes at most once, exactly when the flag
\* _SCHEMA_INITIALIZED is set, and only on a handle opened read-write; a
\* manager constructed read-only does not invoke it (no connection, no DDL);
\* a run that gets a read-only handle has its DDL rejected, changes nothing
\* and leaves the flag unset.
C9_InitCompletesAtMostOnce ==
    /\ init_ok <= 1
    /\ SCHEMA_INITIALIZED <=> (init_ok = 1)
    /\ init_ok = 1 => got_rw
    /\ InTrace("ddl_ok") => SHARED_CONNECTION = "rw"
    /\ (res.op = "new" /\ ~res.wantRW) => res.trace = <<>>
    /\ InTrace("ddl_rejected") =>
          (SHARED_CONNECTION = "ro" /\ ~SCHEMA_INITIALIZED /\ ~res.changed)

\* C9 witness: a first run was rejected on a downgraded handle, a later
\* construction ran initialize_db again and completed it.
C9_Witness ==
    res.op = "new" /\ init_calls = 2 /\ init_ok = 1 /\ InTrace("ddl_ok")

UpgradeCase ==
    res.op \in {"get_connection", "new"} /\ res.wantRW /\ res.preConn = "ro"

\* C10 (as claimed): when the shared handle is read-only and a manager
\* requesting writable mode calls get_connection, the shared handle is
\* closed and reopened and the handle returned is writable.
C10_UpgradeYieldsWritable ==
    UpgradeCase => (InTrace("close") /\ SHARED_CONNECTION = "rw")

\* C10 (amended): the shared handle is closed and reopened; the handle
\* returned is writable when no other process holds the store file, and
\* otherwise it is a read-only handle again, with the manager's read_only
\* flag and _CONNECTION_READ_ONLY set.
C10_UpgradeOrDowngrade ==
    UpgradeCase =>
        /\ res.trace # <<>> /\ res.trace[1] = "close"
        /\ ~res.raised
        /\ IF res.lock = "none"
           THEN SHARED_CONNECTION = "rw" /\ ~CONNECTION_READ_ONLY /\ ~read_only[res.m]
           ELSE SHARED_CONNECTION = "ro" /\ CONNECTION_READ_ONLY /\ read_only[res.m]

\* C10 witness: an upgrade that gave a writable handle
C10_Witness ==
    UpgradeCase /\ res.op = "get_connection" /\ SHARED_CONNECTION = "rw"

\* ------------------------------------------------- claims: fetch orchestrator
SmartSkipCall ==
    res.op = "fetch_ohlcv" /\ DATA_STRATEGY \in {"LIVE", "PRODUCTION"} /\ db_enabled

\* the date the freshness test of the call works with: the memo entry if there
\* is one, otherwise the latest date in the store
UsedDate == IF res.memoBefore # NoDate THEN res.memoBefore ELSE Latest(res.storeBefore)

\* C1 (as claimed): under LIVE / PRODUCTION with the store enabled, after any
\* sequence of warmup_cache, fetch_ohlcv and store writes, whenever the store's
\* latest bar date for the symbol is today or yesterday, fetch_ohlcv for a
\* bounded window returns without invoking any provider.  Stated for calls
\* that hold a handle on the store, so that no store read fails.
C1_FreshStoreNoProvider ==
    (SmartSkipCall /\ res.period = "1y" /\ SHARED_CONNECTION # "none"
        /\ Latest(res.storeBefore) >= Yesterday)
        => res.calls = <<>>

\* C1 (amended): whenever the date the freshness test works with (the memo
\* entry if there is one, otherwise the store's latest date) is today or
\* yesterday and the store can be read, fetch_ohlcv returns the stored rows of
\* the window, tagged as served from the store, without invoking any provider.
C1_FreshDateUsedNoProvider ==
    (SmartSkipCall /\ SHARED_CONNECTION # "none" /\ UsedDate >= Yesterday)
        => /\ res.calls = <<>>
           /\ ~res.raised
           /\ res.df = Window(res.storeBefore, res.period)
           /\ res.tag = StoreTag(DATA_STRATEGY)

\* C1 witness: the memo was warmed with yesterday's date and the call was
\* answered from the store
C1_Witness ==
    /\ SmartSkipCall /\ res.ticker = "AAPL" /\ res.period = "1y"
    /\ res.memoBefore = Yesterday
    /\ res.calls = <<>> /\ ~IsEmpty(res.df)

\* C2: for a symbol with no stored bars, when the primary provider raises and
\* the secondary provider returns bars, fetch_ohlcv returns exactly the
\* secondary's bars tagged live and afterwards the store holds exactly them.
\* Stated for the strategies that persist to the store, with a writable handle.
C2_SecondaryAfterPrimaryFailure ==
    (/\ res.op = "fetch_ohlcv" /\ DATA_STRATEGY # "LEGACY" /\ db_enabled
     /\ res.ticker = "AAPL" /\ SHARED_CONNECTION = "rw"
     /\ IsEmpty(res.storeBefore)
     /\ res.p1.kind = "raise" /\ res.p2.kind = "bars")
        => /\ ~res.raised
           /\ res.df = res.p2.df
           /\ res.tag = "live"
           /\ fact_market_data[res.ticker] = res.p2.df

\* C3: fetch_ohlcv never raises to its caller, under any strategy.
C3_FetchNeverRaises ==
    res.op = "fetch_ohlcv" => ~res.raised

InList(t, list) == \E i \in 1..Len(list) : list[i] = t

\* C5: fetch_batch_ohlcv maps each requested symbol to the same rows and the
\* same provider calls that fetch_ohlcv gives for that symbol alone.
C5_BatchEqualsSingle ==
    (res.op = "fetch_batch_ohlcv" /\ ~res.raised)
        => \A t \in Tickers :
              InList(t, res.tickers) =>
                  /\ res.batch[t].present
                  /\ res.batch[t].df = res.single[t].df
                  /\ res.batch[t].calls = res.single[t].calls

\* every provider of the chain was asked or would have answered with nothing
AllProvidersFail ==
    res.op = "fetch_ohlcv" /\ res.calls # <<>>
        /\ res.p1.kind # "bars" /\ res.p2.kind # "bars"

\* C7 (as claimed): if every provider in the chain returns empty or errors,
\* fetch_ohlcv returns an empty table with provenance empty and does not
\* raise, for every strategy and every store state.
C7_AllProvidersFailGivesEmpty ==
    AllProvidersFail => (~res.raised /\ IsEmpty(res.df) /\ res.tag = "empty")

\* C7 (amended): if every provider in the chain returns empty or errors, a
\* fetch_ohlcv that returns has written nothing to the store; under LIVE /
\* PRODUCTION with rows stored for the symbol it returns the stored rows of
\* the window tagged as served from the store, and in every other case the
\* empty table with provenance empty.
C7_AllProvidersFailServesStore ==
    (AllProvidersFail /\ ~res.raised)
        => /\ ~res.changed
           /\ IF DATA_STRATEGY \in {"LIVE", "PRODUCTION"} /\ db_enabled
                 /\ ~IsEmpty(res.storeBefore)
              THEN res.df = Window(res.storeBefore, res.period)
                   /\ res.tag = StoreTag(DATA_STRATEGY)
              ELSE IsEmpty(res.df) /\ res.tag = "empty"

\* C7 witness: both providers gave nothing and the stale stored rows came back
C7_Witness ==
    /\ AllProvidersFail /\ DATA_STRATEGY = "LIVE"
    /\ res.calls = <<"AV", "YF">>
    /\ ~IsEmpty(res.df) /\ res.tag = "cache_db"
    /\ Latest(res.storeBefore) < Yesterday

\* C8: under LIVE / PRODUCTION, for the window "max", once the store holds
\* any bar for the symbol, a fetch_ohlcv that can read the store serves it
\* from the store without invoking any provider, however old the latest date.
C8_MaxWindowAlwaysFresh ==
    (SmartSkipCall /\ res.period = "max" /\ SHARED_CONNECTION # "none"
        /\ ~IsEmpty(res.storeBefore))
        => (res.calls = <<>> /\ res.df = res.storeBefore)

\* ------------------------------------------------------ claims: prefer-store
PreferStoreCall ==
    res.op = "fetch_ohlcv" /\ DATA_STRATEGY = "SYNTHETIC" /\ db_enabled /\ ~res.raised

\* C11 (as claimed): under SYNTHETIC fetch_ohlcv consults the store first and
\* invokes the provider chain if and only if the store returned no rows for
\* the symbol; a non-empty provider result is persisted to the store before
\* it is returned.
C11_StoreFirstThenPersist ==
    PreferStoreCall =>
        /\ (res.calls # <<>>) <=> IsEmpty(res.storeBefore)
        /\ (res.calls # <<>> /\ ~IsEmpty(res.df)) => fact_market_data[res.ticker] = res.df

\* C11 (amended): under SYNTHETIC with the store enabled the provider chain is
\* invoked if and only if the store returned no rows; stored rows are returned
\* as they are, tagged cached, with nothing written; a non-empty provider
\* result is returned tagged live, persisted before the return when the handle
\* is writable and not persisted at all when the handle is read-only.
C11_StoreFirstPersistIfWritable ==
    PreferStoreCall =>
        /\ (res.calls # <<>>) <=> IsEmpty(res.storeBefore)
        /\ ~IsEmpty(res.storeBefore) =>
              /\ res.df = Window(res.storeBefore, res.period)
              /\ res.tag = "cache_db"
              /\ ~res.changed
        /\ (res.calls # <<>> /\ ~IsEmpty(res.df)) =>
              /\ res.tag = "live"
              /\ IF SHARED_CONNECTION = "rw"
                 THEN fact_market_data[res.ticker] = res.df
                 ELSE ~res.changed

\* C11 witness: a miss in the store, the provider's bars saved and returned
C11_Witness ==
    /\ PreferStoreCall /\ IsEmpty(res.storeBefore)
    /\ res.tag = "live" /\ ~IsEmpty(res.df)
    /\ SHARED_CONNECTION = "rw"
    /\ fact_market_data[res.ticker] = res.df

\* C12: under LIVE / PRODUCTION, when the stored data is not fresh and every
\* provider in the chain returns empty or errors, fetch_ohlcv returns the
\* bars the store holds for the symbol, even if stale, tagged cached.
\* Stated for calls that hold a handle on the store.
C12_StaleFallbackTaggedCached ==
    (SmartSkipCall /\ AllProvidersFail /\ SHARED_CONNECTION # "none"
        /\ UsedDate < Yesterday)
        => /\ ~res.raised
           /\ res.df = Window(res.storeBefore, res.period)
           /\ ~IsEmpty(res.df) => res.tag = "cache_db"

\* the bars a provider handed over during the call
ProviderGave == IF res.p1.kind = "bars" THEN res.p1.df ELSE res.p2.df

\* C13: the provenance tag of every fetch_ohlcv result states its true
\* origin, under every strategy: live only if the returned rows were obtained
\* from a provider during this call, cached whenever they were read from the
\* store or the file cache, empty when no rows are returned.
C13_TagStatesOrigin ==
    (res.op = "fetch_ohlcv" /\ ~res.raised)
        => /\ res.tag = "live" =>
                 (res.calls # <<>> /\ ~IsEmpty(res.df) /\ res.df = ProviderGave)
           /\ (~IsEmpty(res.df) /\ res.calls = <<>>) =>
                 res.tag \in {"cache_db", "cache_file"}
           /\ IsEmpty(res.df) <=> res.tag = "empty"

\* ---------------------------------------------------- claims: provider chain
FirstProvider == IF live_is_av THEN "AV" ELSE "YF"

\* C14: within one fetch_ohlcv call the providers are invoked strictly in
\* configured order: the secondary only after the primary returned empty or
\* failed, no provider after one has returned a non-empty result, and when an
\* invoked provider gave bars the result is that of the first that did.
C14_ProvidersInOrder ==
    res.op = "fetch_ohlcv" =>
        /\ res.calls \in {<<>>, <<FirstProvider>>, <<FirstProvider, "YF">>}
        /\ Len(res.calls) = 2 => (live_is_av /\ res.p1.kind # "bars")
        /\ (~res.raised /\ res.calls # <<>> /\ res.p1.kind = "bars") =>
              (res.calls = <<FirstProvider>> /\ res.df = res.p1.df)
        /\ (~res.raised /\ Len(res.calls) = 2 /\ res.p2.kind = "bars") =>
              res.df = res.p2.df

\* C14 witness: the primary gave nothing, the secondary was asked next and its
\* bars were returned
C14_Witness ==
    /\ res.op = "fetch_ohlcv" /\ ~res.raised
    /\ res.calls = <<"AV", "YF">> /\ res.p1.kind = "empty" /\ res.p2.kind = "bars"
    /\ res.df = res.p2.df /\ res.tag = "live"

\* C15: the AlphaVantageProvider is selected at construction exactly when the
\* API key is non-empty, has no "your_" and is longer than 5 characters; with
\* any other key no operation (fetch_ohlcv, get_fundamentals) invokes the
\* AlphaVantageProvider, and with such a key the chain of fetch_ohlcv starts
\* with it.
C15_BadKeyNeverCredentialed ==
    /\ live_is_av <=> KeyAccepted(ALPHA_VANTAGE_API_KEY)
    /\ (res.op \in {"fetch_ohlcv", "get_fundamentals"}
            /\ ~KeyAccepted(ALPHA_VANTAGE_API_KEY))
          => \A i \in 1..Len(res.calls) : res.calls[i] # "AV"
    /\ (res.op = "fetch_ohlcv" /\ KeyAccepted(ALPHA_VANTAGE_API_KEY) /\ res.calls # <<>>)
          => res.calls[1] = "AV"

\* the store after a second save_ohlcv(t, df) is the store after the first (once)
SavedTwiceSame(t, df, once) ==
    Writable(once.w) => Store(save_ohlcv(once.w, FM, t, df, extLock).w) = Store(once.w)

\* C16: the table holds one bar per (ticker, date) (it is keyed by them); after
\* save_ohlcv(t, df) on a writable handle every date of df holds the value of
\* df, replacing what was stored, every other date holds what it held, and in
\* every state a second save of the same bars leaves the store as the first did.
C16_SaveReplacesAndIsIdempotent ==
    /\ fact_market_data \in [Tickers -> [Dates -> Vals \cup {NoBar}]]
    /\ (res.op = "save_ohlcv" /\ ~res.raised /\ SHARED_CONNECTION = "rw")
          => \A d \in Dates :
                fact_market_data[res.ticker][d] =
                    IF res.df[d] # NoBar THEN res.df[d] ELSE res.storeBefore[d]
    /\ FM \in constructed
          => \A t \in Tickers, df \in ProviderTables \cup ConnTables :
                SavedTwiceSame(t, df, save_ohlcv(World, FM, t, df, extLock))

\* a stored bar of value 1 was replaced by the saved value 2, an older bar kept
C16_Witness ==
    /\ res.op = "save_ohlcv" /\ ~res.raised /\ SHARED_CONNECTION = "rw"
    /\ res.storeBefore[Yesterday] = 1 /\ res.df[Yesterday] = 2
    /\ fact_market_data[res.ticker][Yesterday] = 2
    /\ fact_market_data[res.ticker][OldDay] = 1

\* a batch call over tickers of which the store holds some and not others, with
\* every provider answering with an empty table
PartialMissCall ==
    /\ res.op = "fetch_batch_ohlcv" /\ db_enabled
    /\ res.p1.kind = "empty" /\ res.p2.kind = "empty"
    /\ \E t \in Tickers : InList(t, res.tickers) /\ ~IsEmpty(fact_market_data[t])
    /\ \E t \in Tickers : InList(t, res.tickers) /\ IsEmpty(fact_market_data[t])

\* C17: such a batch call returns without raising; each stored ticker is
\* mapped to a non-empty table, each missing ticker is absent or mapped to an
\* empty table, and the entry of a missing ticker is what fetch_ohlcv gives
\* for it alone.
C17_PartialMissBatch ==
    PartialMissCall =>
        /\ ~res.raised
        /\ \A t \in Tickers :
              InList(t, res.tickers) =>
                  IF ~IsEmpty(fact_market_data[t])
                  THEN res.batch[t].present /\ ~IsEmpty(res.batch[t].df)
                  ELSE /\ ~res.batch[t].present \/ IsEmpty(res.batch[t].df)
                       /\ res.batch[t] = res.single[t]

\* the same with the connection of the store open when the call ends
C17_PartialMissBatchConnected ==
    SHARED_CONNECTION # "none" => C17_PartialMissBatch

C17_Witness ==
    /\ PartialMissCall /\ ~res.raised
    /\ res.batch["$MARKET"].present /\ ~IsEmpty(res.batch["$MARKET"].df)
    /\ res.batch["AAPL"].present /\ IsEmpty(res.batch["AAPL"].df)
    /\ res.batch["AAPL"].calls # <<>>

\* the freshness test of the call found the date it works with fresh
DecidedFresh == UsedDate # NoDate /\ UsedDate >= Yesterday

\* C18: only warmup_cache changes date_cache (fetch_ohlcv, fetch_batch_ohlcv,
\* get_fundamentals and the store writes leave it as it is), and the freshness
\* decision of fetch_ohlcv is taken on the memo entry whenever there is one and
\* on the store's latest date only when there is none: with the store readable
\* the providers are left alone exactly when that date is today or yesterday.
C18_MemoOnlyByWarmup ==
    /\ [][date_cache' # date_cache => res'.op = "warmup_cache"]_vars
    /\ []((SmartSkipCall /\ res.ticker # "$MARKET" /\ SHARED_CONNECTION # "none")
             => (res.calls = <<>> <=> DecidedFresh))

\* the memo holds an old date, the store was written since and holds today's
\* bar: the call goes to the providers
C18_Witness ==
    /\ SmartSkipCall /\ res.ticker = "AAPL"
    /\ res.memoBefore = OldDay /\ Latest(res.storeBefore) = Today
    /\ date_cache["AAPL"] = OldDay
    /\ res.calls # <<>>

FileOnlyCall == res.op = "fetch_ohlcv" /\ DATA_STRATEGY = "LEGACY" /\ res.use_cache

\* the cache file of the call's (ticker, period) before the call
FileBefore == res.filesBefore[<<res.ticker, res.period>>]

\* C19: under the file-cache strategy with use_cache set, a file of exactly
\* (ticker, period) written today is returned as it is, no provider is invoked
\* and no file changes; otherwise (no such file, or written on an earlier day,
\* whatever files other periods have) self.provider is invoked exactly once and
\* a non-empty result becomes the file of (ticker, period) and of no other key,
\* an empty one changes no file; the store is not opened, read or written.
C19_FileCacheSameDayPerWindow ==
    FileOnlyCall =>
        /\ ~res.raised
        /\ FileBefore.day = Today
              => (res.df = FileBefore.df /\ res.calls = <<>>
                    /\ cache_files = res.filesBefore)
        /\ FileBefore.day # Today
              => /\ res.calls # <<>> /\ res.calls[1] = FirstProvider
                 /\ Cardinality({i \in 1..Len(res.calls) : res.calls[i] = FirstProvider}) = 1
                 /\ cache_files =
                        IF IsEmpty(res.df) THEN res.filesBefore
                        ELSE [res.filesBefore EXCEPT ![<<res.ticker, res.period>>] =
                                                        [day |-> Today, df |-> res.df]]
        /\ ~res.changed /\ res.trace = <<>> /\ SHARED_CONNECTION = "none"

\* the "1y" file of the ticker was written today and "max" was requested: the
\* provider was asked and its bars became the "max" file, the "1y" file stayed
C19_Witness ==
    /\ FileOnlyCall /\ res.ticker = "AAPL" /\ res.period = "max"
    /\ res.filesBefore[<<"AAPL", "1y">>].day = Today
    /\ res.calls # <<>> /\ ~IsEmpty(res.df)
    /\ cache_files[<<"AAPL", "max">>] = [day |-> Today, df |-> res.df]
    /\ cache_files[<<"AAPL", "1y">>] = res.filesBefore[<<"AAPL", "1y">>]

\* ------------------------------------------------- claims: reads after writes
ReadOps == {"get_latest_date", "db_fetch_ohlcv", "db_fetch_batch_ohlcv"}

\* the read that res holds shows the bars of tab: it did not raise, and the
\* latest date is not before the latest of tab, or the returned rows hold
\* every bar of tab with its value
ReadShows(tab) ==
    /\ ~res.raised
    /\ IF res.op = "get_latest_date"
       THEN res.arg # NoDate /\ res.arg >= Latest(tab)
       ELSE \A d \in Dates : tab[d] # NoBar => res.df[d] = tab[d]

\* C20 (as claimed): once save_ohlcv(t, bars) has returned, every later read of
\* t in the process (get_latest_date, the store's fetch_ohlcv and
\* fetch_batch_ohlcv, through any manager) shows those bars.
C20_ReadsShowSavedBars ==
    (res.op \in ReadOps /\ ~IsEmpty(saved.any[res.ticker]))
        => ReadShows(saved.any[res.ticker])

\* C20 (amended): once save_ohlcv(t, bars) has returned with the handle of the
\* process writable, the handle stays writable and every later read of t
\* through any manager returns without raising and shows those bars, whatever
\* get_connection calls, constructions and lock changes happened in between.
C20_ReadsShowWrittenBars ==
    /\ \A t \in Tickers :
          ~IsEmpty(saved.rw[t])
              => /\ SHARED_CONNECTION = "rw"
                 /\ \A d \in Dates :
                       saved.rw[t][d] # NoBar => fact_market_data[t][d] = saved.rw[t][d]
    /\ (res.op \in ReadOps /\ ~IsEmpty(saved.rw[res.ticker]))
          => ReadShows(saved.rw[res.ticker])

\* a read through a manager constructed read-only, made after another manager
\* saved bars on the writable handle, returns them
C20_Witness ==
    /\ res.op = "db_fetch_ohlcv" /\ ~res.raised
    /\ read_only[res.m]
    /\ saved.rw[res.ticker] = LiveTable
    /\ res.df = LiveTable

\* ------------------------------------------------- claims: the batch query
\* alphanumerics and the punctuation of ticker symbols
SafeChars == {"A", "."}
Unsafe(sym) == \E i \in 1..Len(sym) : sym[i] \notin SafeChars

\* text holds the characters of sym, in order and next to each other
Contains(text, sym) ==
    \E k \in 0..(Len(text) - Len(sym)) : \A i \in 1..Len(sym) : text[k + i] = sym[i]

\* C21: a requested symbol with a character outside alphanumerics and the
\* allowed punctuation (a single quote) never reaches the text of the IN (...)
\* query as given.
C21_UnsafeSymbolNotInQuery ==
    res.op = "batch_query"
        => \A i \in 1..Len(res.symbols) :
              Unsafe(res.symbols[i]) => ~Contains(res.query, res.symbols[i])

\* ------------------------------------------- claims: the shared connection
\* the call found a read-only handle and its manager asks for a writable one
UpgradeRequest == res.preConn = "ro" /\ res.wantRW

\* C22: an operation closes the shared connection only for a read-only to
\* writable upgrade; a get_connection that finds a handle and is no such
\* request opens and closes nothing, returns and leaves the handle in its mode
\* (a read-only request on a writable handle reuses it).
C22_ReuseUnlessUpgrade ==
    /\ InTrace("close") => UpgradeRequest
    /\ (res.op = "get_connection" /\ res.preConn # "none" /\ ~UpgradeRequest)
          => (res.trace = <<>> /\ ~res.raised /\ SHARED_CONNECTION = res.preConn)

\* a manager constructed read-only called get_connection on a writable handle
C22_Witness ==
    /\ res.op = "get_connection" /\ res.preConn = "rw" /\ ~res.wantRW
    /\ read_only[res.m]
    /\ res.trace = <<>> /\ SHARED_CONNECTION = "rw"

\* ------------------------------------------------- claims: discovery
\* the tickers reachable from S over at most n competitor edges
RECURSIVE Within(_, _, _)
Within(edges, S, n) ==
    IF n = 0 THEN S ELSE Within(edges, S \cup Neighbours(edges, S), n - 1)

\* reachable from the core in 1 to depth hops and not a core ticker
Reachable == Within(dim_competitors, res.core, res.depth) \ res.core

\* C23: a get_discovery_candidates(core, limit, depth) that returns gives only
\* tickers reachable from the core over competitor edges in 1 to depth hops,
\* never a core ticker (so none first reachable at hop depth+1), also when
\* the graph has cycles, and all of them when limit is at least their number.
C23_DiscoveryWithinDepth ==
    (res.op = "get_discovery_candidates" /\ ~res.raised)
        => /\ res.out \subseteq Reachable
           /\ Cardinality(res.out) <= res.limit
           /\ res.limit >= Cardinality(Reachable) => res.out = Reachable

\* the same for the JSON path (store disabled)
C23_DiscoveryWithinDepthJson ==
    ~db_enabled => C23_DiscoveryWithinDepth

\* the same for the store path over graphs whose tickers all pass the filter
C23_DiscoveryWithinDepthShort ==
    (\A e \in dim_competitors : PassesFilter(e[1]) /\ PassesFilter(e[2]))
        => C23_DiscoveryWithinDepth

C23_Witness ==
    /\ res.op = "get_discovery_candidates" /\ ~res.raised /\ ~db_enabled
    /\ {<<"A", "B">>, <<"B", "A">>, <<"B", "C">>} \subseteq dim_competitors
    /\ res.core = {"A"} /\ res.depth = 2 /\ res.out = Reachable /\ "C" \in res.out

\* ------------------------------------------------- claims: background collector
\* the gap logic of the step read the store and selected a period
PeriodSelected == res.op = "dcs_update" /\ ~res.raised /\ res.period # NoPeriod

\* C24: in a collector cycle, whenever the gap logic selects a fetch period
\* for a ticker (its latest stored bar is one or more days old, or it has no
\* stored bar), the fetch_ohlcv call of the step contacts the live provider.
C24_SelectedPeriodContactsProvider ==
    PeriodSelected => res.calls # <<>>

\* the same for a latest bar older than yesterday, or no bar
C24_OlderGapContactsProvider ==
    (PeriodSelected /\ Latest(res.storeBefore) < Yesterday) => res.calls # <<>>

\* ------------------------------------------------- claims: ActivityTracker
\* the construction of the tracker found the store locked: its writable open
\* failed and the handle it got is read-only
OpenedOnlyRO == res.op = "ActivityTracker" /\ InTrace("fail_rw") /\ InTrace("open_ro")

\* C25: ActivityTracker.read_only is True whenever the store could only be
\* opened read-only because of lock contention when the tracker was
\* constructed, and it is False only when the tracker's manager holds a
\* writable handle.
C25_TrackerFlagFollowsHandle ==
    /\ OpenedOnlyRO => activity.read_only[res.m]
    /\ (res.op = "ActivityTracker" /\ ~activity.read_only[res.m])
          => (SHARED_CONNECTION = "rw" /\ ~read_only[res.m])

\* ------------------------------------------ claims: recovery of a downgrade
\* manager m was constructed as writable and a lock conflict made it read-only
Downgraded(m) == m \in constructed /\ ~init_read_only[m] /\ read_only[m]

\* C26: a manager constructed as writable that was downgraded to read-only
\* while another process held the write lock gets a writable handle from a
\* later get_connection once that lock is released.
C26_DowngradeRecovers ==
    (res.op = "get_connection" /\ ~res.raised /\ Downgraded(res.m) /\ res.lock = "none")
        => SHARED_CONNECTION = "rw"

\* --------------------------------------- claims: the shared flag and handle
\* a get_connection call has returned a cursor
Returned == res.op = "get_connection" /\ ~res.raised

\* C27: after every return of get_connection, for any interleaving of the
\* calls of the managers of one process, _CONNECTION_READ_ONLY equals the mode
\* the shared connection was opened with, and if the calling manager's
\* read_only is False the shared connection is writable.
C27_FlagAndHandleAgree ==
    Returned => /\ SHARED_CONNECTION # "none"
                /\ CONNECTION_READ_ONLY <=> (SHARED_CONNECTION = "ro")
                /\ ~read_only[res.m] => SHARED_CONNECTION = "rw"

\* C27 witness: a writable manager's call returned after it closed the
\* read-only handle another manager had opened and reopened it writable
C27_Witness ==
    /\ Returned
    /\ ~read_only[res.m]
    /\ res.trace = <<"close", "open_rw">>
    /\ \E k \in constructed : k # res.m /\ read_only[k]
    /\ SHARED_CONNECTION = "rw" /\ ~CONNECTION_READ_ONLY

\* ------------------------------------------------- claims: cursors in use
\* C28: no get_connection call closes the shared connection while a cursor
\* that an earlier get_connection handed out, to the same or another manager,
\* is still open.
C28_NoCursorInvalidated ==
    \A c \in Callers : cursors[c].state # "dead"

\* the same for a call of the manager that handed the cursor out
C28_OwnManagerKeepsCursor ==
    \A c \in Callers : cursors[c].state = "dead" => cursors[c].by # cursors[c].m

\* --------------------------------------------- claims: the provider's answer
\* a provider that the fetch_ohlcv call invoked returned a non-empty series
ProviderGaveBars ==
    /\ res.op = "fetch_ohlcv"
    /\ \/ Len(res.calls) >= 1 /\ res.p1.kind = "bars"
       \/ Len(res.calls) = 2 /\ res.p2.kind = "bars"

\* C29: for every strategy and configuration, if a provider in the chain
\* returned a non-empty series during a fetch_ohlcv call, the call returns a
\* non-empty result.
C29_ProviderBarsReturned ==
    ProviderGaveBars => (~res.raised /\ ~IsEmpty(res.df))

\* the same while no other process holds the store file exclusively
C29_ProviderBarsReturnedUnlocked ==
    (ProviderGaveBars /\ res.lock # "exclusive") => (~res.raised /\ ~IsEmpty(res.df))

\* ------------------------------------ claims: nothing persisted on failure
\* a fetch_ohlcv call in which no invoked provider returned bars
NoProviderBars == res.op = "fetch_ohlcv" /\ ~ProviderGaveBars

\* C30: when every provider invoked by a fetch_ohlcv call returns empty or
\* errors, the call leaves the store's bars, the asset dimension and the file
\* cache as they were before the call.
C30_FailureNotPersisted ==
    NoProviderBars => /\ ~res.changed
                      /\ fact_market_data[res.ticker] = res.storeBefore
                      /\ cache_files = res.filesBefore

\* C30 witness: both providers of the chain were invoked, the first returned
\* empty and the second raised, with nothing stored for the ticker
C30_Witness ==
    /\ NoProviderBars
    /\ res.calls = <<"AV", "YF">>
    /\ res.p1.kind = "empty" /\ res.p2.kind = "raise"
    /\ IsEmpty(fact_market_data[res.ticker]) /\ ~dim_assets[res.ticker].present
    /\ SHARED_CONNECTION = "rw"

====
